---- MODULE Spec2Model ----
(***************************************************************************)
(* A model of temba/contacts/search/parser.py: the contact query AST, its  *)
(* optimizer (simplify, split_by_prop), property resolution and the three  *)
(* backends (relational, search index, in-memory evaluation), and of the   *)
(* data migration temba/channels/migrations/0081 that rewrites the config  *)
(* of the Nexmo channels.                                                  *)
(*                                                                         *)
(* Query nodes are Python objects: BoolCombination.simplify() and          *)
(* split_by_prop() assign to self.children, so nodes live in a heap and    *)
(* are addressed by their index in it.  Strings that the code inspects     *)
(* character by character (query text, values) are sequences of            *)
(* one-character strings; property names are atoms.                        *)
(***************************************************************************)
EXTENDS Integers, Sequences, FiniteSets, TLC

VARIABLES
    heap,       \* the query node objects, addressed by index
    stack,      \* ContactQLVisitor: results of the sub-expressions visited so far
    q,          \* root of the ContactQuery under test (0: not yet constructed)
    r,          \* node returned by the last optimizer call on q (0: none)
    op,         \* the last call made: an optimizer method on q, or a function of the API
    pre,        \* the tree of the node an optimizer call was made on, just before the call
    organization,   \* the org the queries are made for
    query_text,     \* the text given to parse_query
    input_stream,   \* the InputStream parse_query handed to the lexer
    record,         \* the contact record (contact_json) given to evaluate
    out,            \* what the last call of the API returned or raised
    IS_PROD,        \* settings.IS_PROD
    PY2,            \* six.PY2: whether the interpreter is Python 2
    Channel_objects,    \* the rows of the channels table, by id
    Org_objects,        \* the keys of config_json() of every org, by id
    nexmo_channels,     \* migration 0081: the channels the loop has still to visit
    channel,            \* migration 0081: the channel the loop is at (0: none)
    pc,                 \* migration 0081: where update_nexmo_channels_config is
    nexmo_numbers       \* the calls of update_nexmo_number the Nexmo API has received

\* the state of the migration, which the query parser never touches
migration ==
    <<IS_PROD, PY2, Channel_objects, Org_objects, nexmo_channels, channel, pc, nexmo_numbers>>

vars ==
    <<heap, stack, q, r, op, pre, organization, query_text, input_stream, record, out, migration>>

\* no migration is running, and there are no channels
NoMigration ==
    /\ IS_PROD = FALSE
    /\ PY2 = TRUE
    /\ Channel_objects = <<>>
    /\ Org_objects = <<>>
    /\ nexmo_channels = {}
    /\ channel = 0
    /\ pc = "idle"
    /\ nexmo_numbers = <<>>

\* what the calls of the optimizer leave alone
api == <<organization, query_text, input_stream, record, out>>

(***************************************************************************)
(* Bounds of the model.                                                    *)
(***************************************************************************)
MaxLeaves == 4      \* conditions in one parsed query
MaxEvalLeaves == 3  \* conditions in a query whose evaluation is compared
MaxProps == 2       \* conditions in a query whose properties are resolved

None == "<None>"

(***************************************************************************)
(* Query nodes.                                                            *)
(***************************************************************************)
AND == "AND"
OR == "OR"

COMPARATOR_ALIASES == [is |-> "=", has |-> "~"]

Condition(prop, comparator, value) ==
    [kind |-> "Condition",
     prop |-> prop,
     comparator |-> IF comparator \in DOMAIN COMPARATOR_ALIASES
                    THEN COMPARATOR_ALIASES[comparator] ELSE comparator,
     value |-> value,
     op |-> None,
     children |-> <<>>]

IsSetCondition(prop, comparator) ==
    [Condition(prop, comparator, <<>>) EXCEPT !.kind = "IsSetCondition"]

BoolCombination(o, children) ==
    [kind |-> "BoolCombination", prop |-> None, comparator |-> None,
     value |-> <<>>, op |-> o, children |-> children]

\* isinstance(node, Condition): IsSetCondition is a subclass of Condition
isCondition(node) == node.kind \in {"Condition", "IsSetCondition"}

\* the assertion of SinglePropCombination.__init__, over the objects in h
SinglePropAssertion(h, prop, children) ==
    \A i \in 1..Len(children) :
        isCondition(h[children[i]]) /\ h[children[i]].prop = prop

SinglePropCombination(prop, o, children) ==
    [kind |-> "SinglePropCombination", prop |-> prop, comparator |-> None,
     value |-> <<>>, op |-> o, children |-> children]

(***************************************************************************)
(* The tree below node n of heap h, as a value (children by value).        *)
(***************************************************************************)
RECURSIVE Tree(_, _)
Tree(h, n) ==
    [h[n] EXCEPT !.children = [i \in 1..Len(h[n].children) |-> Tree(h, h[n].children[i])]]

\* concatenation of a sequence of sequences
RECURSIVE Concat(_)
Concat(ss) == IF ss = <<>> THEN <<>> ELSE Head(ss) \o Concat(Tail(ss))

\* get_prop_names() of a tree value
RECURSIVE get_prop_names(_)
get_prop_names(t) ==
    IF isCondition(t) THEN <<t.prop>>
    ELSE Concat([i \in 1..Len(t.children) |-> get_prop_names(t.children[i])])

(***************************************************************************)
(* BoolCombination.simplify(), on the heap.  Returns the heap after the    *)
(* call and the node returned.                                             *)
(***************************************************************************)
RECURSIVE simplify(_, _), simplify_children(_, _, _), simplify_loop(_, _, _, _)

\* [c.simplify() for c in self.children], left to right
simplify_children(h, cs, done) ==
    IF cs = <<>> THEN [heap |-> h, rets |-> done]
    ELSE LET s == simplify(h, Head(cs))
         IN simplify_children(s.heap, Tail(cs), Append(done, s.ret))

\* simplify_loop with the test of the child's operator dropped: a child combination
\* of the other operator is kept as a child and the loop goes on
RECURSIVE simplify_loop_no_return(_, _, _, _)
simplify_loop_no_return(h, self, i, simplified) ==
    IF i > Len(h[self].children)
    THEN [heap |-> Append(h, BoolCombination(h[self].op, simplified)), ret |-> Len(h) + 1]
    ELSE LET child == h[self].children[i]
         IN IF isCondition(h[child]) \/ h[child].op # h[self].op
            THEN simplify_loop_no_return(h, self, i + 1, Append(simplified, child))
            ELSE simplify_loop_no_return(h, self, i + 1, simplified \o h[child].children)

\* simplify_loop absorbing the children of every child combination, whatever its
\* operator
RECURSIVE simplify_loop_any_op(_, _, _, _)
simplify_loop_any_op(h, self, i, simplified) ==
    IF i > Len(h[self].children)
    THEN [heap |-> Append(h, BoolCombination(h[self].op, simplified)), ret |-> Len(h) + 1]
    ELSE LET child == h[self].children[i]
         IN IF isCondition(h[child])
            THEN simplify_loop_any_op(h, self, i + 1, Append(simplified, child))
            ELSE simplify_loop_any_op(h, self, i + 1, simplified \o h[child].children)

\* the for loop over self.children, from child i on
simplify_loop(h, self, i, simplified) ==
    IF i > Len(h[self].children)
    THEN [heap |-> Append(h, BoolCombination(h[self].op, simplified)), ret |-> Len(h) + 1]
    ELSE LET child == h[self].children[i]
         IN IF isCondition(h[child])
            THEN simplify_loop(h, self, i + 1, Append(simplified, child))
            ELSE IF h[child].op # h[self].op
            THEN [heap |-> h, ret |-> self]
            ELSE simplify_loop(h, self, i + 1, simplified \o h[child].children)

simplify(h, n) ==
    IF isCondition(h[n]) THEN [heap |-> h, ret |-> n]
    ELSE LET s == simplify_children(h, h[n].children, <<>>)
             h1 == [s.heap EXCEPT ![n].children = s.rets]
         IN simplify_loop(h1, n, 1, <<>>)

(***************************************************************************)
(* BoolCombination.split_by_prop(), on the heap.                           *)
(***************************************************************************)
RECURSIVE split_by_prop(_, _), split_children(_, _, _)
RECURSIVE group_loop(_, _, _), new_children_loop(_, _, _, _)

\* [c.split_by_prop() for c in self.children], left to right
split_children(h, cs, done) ==
    IF cs = <<>> THEN [heap |-> h, rets |-> done]
    ELSE LET s == split_by_prop(h, Head(cs))
         IN split_children(s.heap, Tail(cs), Append(done, s.ret))

\* children_by_prop: an OrderedDict, as a sequence of [prop, children] entries
\* in order of first insertion
group_loop(h, cs, by_prop) ==
    IF cs = <<>> THEN by_prop
    ELSE LET child == Head(cs)
             prop == IF isCondition(h[child]) THEN h[child].prop ELSE None
             at == {k \in 1..Len(by_prop) : by_prop[k].prop = prop}
         IN IF at = {}
            THEN group_loop(h, Tail(cs), Append(by_prop, [prop |-> prop, children |-> <<child>>]))
            ELSE LET k == CHOOSE k \in at : TRUE
                 IN group_loop(h, Tail(cs),
                        [by_prop EXCEPT ![k].children = Append(@, child)])

\* new_children_loop wrapping every group of Conditions, single ones included
RECURSIVE new_children_loop_wrap_all(_, _, _, _)
new_children_loop_wrap_all(h, self, by_prop, acc) ==
    IF by_prop = <<>> THEN [heap |-> h, rets |-> acc]
    ELSE LET e == Head(by_prop)
         IN IF e.prop # None
            THEN new_children_loop_wrap_all(
                     Append(h, SinglePropCombination(e.prop, h[self].op, e.children)),
                     self, Tail(by_prop), Append(acc, Len(h) + 1))
            ELSE new_children_loop_wrap_all(h, self, Tail(by_prop), acc \o e.children)

\* the loop over children_by_prop.items()
new_children_loop(h, self, by_prop, acc) ==
    IF by_prop = <<>> THEN [heap |-> h, rets |-> acc]
    ELSE LET e == Head(by_prop)
         IN IF Len(e.children) > 1 /\ e.prop # None
            THEN new_children_loop(
                     Append(h, SinglePropCombination(e.prop, h[self].op, e.children)),
                     self, Tail(by_prop), Append(acc, Len(h) + 1))
            ELSE new_children_loop(h, self, Tail(by_prop), acc \o e.children)

\* split_by_prop() without "if len(new_children) == 1: return new_children[0]"
split_by_prop_always_combination(h, n) ==
    IF isCondition(h[n]) THEN [heap |-> h, ret |-> n]
    ELSE LET s == split_children(h, h[n].children, <<>>)
             h1 == [s.heap EXCEPT ![n].children = s.rets]
             by_prop == group_loop(h1, h1[n].children, <<>>)
             g == new_children_loop(h1, n, by_prop, <<>>)
         IN [heap |-> Append(g.heap, BoolCombination(h1[n].op, g.rets)),
             ret |-> Len(g.heap) + 1]

split_by_prop(h, n) ==
    IF isCondition(h[n]) THEN [heap |-> h, ret |-> n]
    ELSE LET s == split_children(h, h[n].children, <<>>)
             h1 == [s.heap EXCEPT ![n].children = s.rets]
             by_prop == group_loop(h1, h1[n].children, <<>>)
             g == new_children_loop(h1, n, by_prop, <<>>)
         IN IF Len(g.rets) = 1
            THEN [heap |-> g.heap, ret |-> g.rets[1]]
            ELSE [heap |-> Append(g.heap, BoolCombination(h1[n].op, g.rets)),
                  ret |-> Len(g.heap) + 1]

\* ContactQuery.optimized(): ContactQuery(self.root.simplify().split_by_prop())
optimized(h, root) ==
    LET s == simplify(h, root)
    IN split_by_prop(s.heap, s.ret)

(***************************************************************************)
(* Strings: sequences of one-character strings.                            *)
(***************************************************************************)
Digits == {"0", "1", "2", "3", "4", "5", "6", "7", "8", "9"}

DigitValue(c) ==
    CASE c = "0" -> 0 [] c = "1" -> 1 [] c = "2" -> 2 [] c = "3" -> 3 [] c = "4" -> 4
      [] c = "5" -> 5 [] c = "6" -> 6 [] c = "7" -> 7 [] c = "8" -> 8 [] c = "9" -> 9

\* the letters of the model's alphabet, lower case and upper case
LowerLetters ==
    <<"a", "b", "d", "e", "g", "h", "i", "l", "m", "n", "o", "r", "s", "t", "u", "w", "x">>
UpperLetters ==
    <<"A", "B", "D", "E", "G", "H", "I", "L", "M", "N", "O", "R", "S", "T", "U", "W", "X">>

\* str.upper() and str.lower()
UpperChar(c) ==
    IF \E i \in 1..Len(LowerLetters) : LowerLetters[i] = c
    THEN UpperLetters[CHOOSE i \in 1..Len(LowerLetters) : LowerLetters[i] = c]
    ELSE c

LowerChar(c) ==
    IF \E i \in 1..Len(UpperLetters) : UpperLetters[i] = c
    THEN LowerLetters[CHOOSE i \in 1..Len(UpperLetters) : UpperLetters[i] = c]
    ELSE c

upper(s) == [i \in 1..Len(s) |-> UpperChar(s[i])]

lower(s) == [i \in 1..Len(s) |-> LowerChar(s[i])]

\* str.lower() of the property names and comparators the model uses
LowerName(name) ==
    CASE name = "Age" -> "age"
      [] name = "NAME" -> "name"
      [] name = "IS" -> "is"
      [] name = "HAS" -> "has"
      [] OTHER -> name

\* sub in s (Python's substring test)
Contains(sub, s) ==
    \E i \in 0..(Len(s) - Len(sub)) : SubSeq(s, i + 1, i + Len(sub)) = sub

\* s.split(' > ')[-1]: what follows the last ' > ' of s
LastSegment(s) ==
    LET sep == <<" ", ">", " ">>
        at == {i \in 1..(Len(s) - 2) : SubSeq(s, i, i + 2) = sep}
    IN IF at = {} THEN s
       ELSE LET last == CHOOSE i \in at : \A j \in at : j <= i
            IN SubSeq(s, last + 3, Len(s))

\* the value of a string of decimal digits
RECURSIVE DecimalDigits(_)
DecimalDigits(s) ==
    IF s = <<>> THEN 0
    ELSE 10 * DecimalDigits(SubSeq(s, 1, Len(s) - 1)) + DigitValue(s[Len(s)])

\* Decimal(val), for the strings the model draws values from (no white space
\* around the number, no fraction, exponent, infinity or NaN notation): an
\* optionally signed string of digits is a number, every other string raises.
\* <<>>: it raised.
Decimal(val) ==
    LET signed == val # <<>> /\ val[1] \in {"+", "-"}
        body == IF signed THEN Tail(val) ELSE val
    IN IF body # <<>> /\ \A i \in 1..Len(body) : body[i] \in Digits
       THEN <<IF signed /\ val[1] = "-" THEN 0 - DecimalDigits(body) ELSE DecimalDigits(body)>>
       ELSE <<>>

(***************************************************************************)
(* Outcomes of a call: a returned value or a raised exception.             *)
(***************************************************************************)
Return(v) == [exc |-> None, val |-> v, msg |-> None]

Raise(e) == [exc |-> e, val |-> FALSE, msg |-> None]

SearchException == "SearchException"
ValueError == "ValueError"

(***************************************************************************)
(* Organizations, contact fields, contacts.                                *)
(***************************************************************************)
\* Value.TYPE_*
TYPE_TEXT == "T"
TYPE_NUMBER == "N"
TYPE_DATETIME == "D"
TYPE_STATE == "S"
TYPE_DISTRICT == "I"
TYPE_WARD == "W"

LocationTypes == {TYPE_STATE, TYPE_DISTRICT, TYPE_WARD}

\* ContactQuery.PROP_*
PROP_ATTRIBUTE == "A"
PROP_SCHEME == "S"
PROP_FIELD == "F"

SEARCHABLE_SCHEMES == <<"tel", "twitter">>

\* a ContactField row: its key, id (also standing for its uuid), value type,
\* is_active flag and the timezone of its org
ContactField(key, id, value_type, is_active, timezone) ==
    [key |-> key, id |-> id, value_type |-> value_type, is_active |-> is_active,
     timezone |-> timezone]

\* what a prop_map entry refers to when it is an attribute or a scheme: its name
Named(name) ==
    [key |-> name, id |-> 0, value_type |-> None, is_active |-> TRUE, timezone |-> 0]

\* a prop_map entry (prop_type, prop_obj)
Entry(prop_type, prop_obj) == [type |-> prop_type, obj |-> prop_obj]

\* an Org: is_anon, its timezone (as the offset of local time from UTC, in
\* ticks) and its ContactField rows
Org(is_anon, timezone, fields) ==
    [is_anon |-> is_anon, timezone |-> timezone, fields |-> fields]

(***************************************************************************)
(* temba.utils.dates.  Instants are counted in seconds from                *)
(* 2020-01-14T00:00:00Z, days from 2020-01-14.                             *)
(***************************************************************************)
SecondsPerDay == 86400

Date_2020_01_14 == <<"2", "0", "2", "0", "-", "0", "1", "-", "1", "4">>
Date_2020_01_15 == <<"2", "0", "2", "0", "-", "0", "1", "-", "1", "5">>
Date_2020_01_16 == <<"2", "0", "2", "0", "-", "0", "1", "-", "1", "6">>

\* str_to_datetime(value, tz, dayfirst, fill_time=False).date() of a query value:
\* the local day it names, as <<days since 2020-01-14>>, or <<>> (None) when the
\* text is no date
str_to_date(value) ==
    CASE value = Date_2020_01_14 -> <<0>>
      [] value = Date_2020_01_15 -> <<1>>
      [] value = Date_2020_01_16 -> <<2>>
      [] OTHER -> <<>>

\* date_to_utc_range(date, org): the UTC instants [start, end) of the local day
date_to_utc_range(day, timezone) ==
    <<day * SecondsPerDay - timezone, (day + 1) * SecondsPerDay - timezone>>

(***************************************************************************)
(* Contact records (contact_json).  fields maps the id of each field the   *)
(* contact has a value of to that value's entry; an entry always holds the *)
(* text and holds the typed values that could be derived from it (<<>>:    *)
(* absent, <<v>>: present).  urns is the list of the contact's URNs.       *)
(***************************************************************************)
FieldValue(text, number, datetime, location) ==
    [text |-> text, number |-> number, datetime |-> datetime, location |-> location]

\* the entry of a value that is a number, and of one that is only a text
NumberValue(text) == FieldValue(text, <<text>>, <<>>, <<>>)

TextValue(text) == FieldValue(text, <<>>, <<>>, <<>>)

Urn(scheme, path) == [scheme |-> scheme, path |-> path]

ContactJson(id, name, fields, urns) ==
    [id |-> id, name |-> name, fields |-> fields, urns |-> urns]

(***************************************************************************)
(* The in-memory evaluator.                                                *)
(***************************************************************************)
\* Condition._parse_number
parse_number(val) == IF Decimal(val) = <<>> THEN Raise(SearchException) ELSE Return(Decimal(val)[1])

\* Condition.evaluate, PROP_FIELD branch, for a contact that has the field
Condition_evaluate_field(self, field, contact_field) ==
    CASE field.value_type = TYPE_TEXT ->
            IF self.comparator = "="
            THEN Return(upper(contact_field.text) = upper(self.value))
            ELSE Raise(ValueError)
      [] field.value_type = TYPE_NUMBER ->
            LET query_value == parse_number(self.value)
            IN IF query_value.exc # None THEN query_value
               ELSE IF contact_field.number = <<>> THEN Return(FALSE)
               ELSE LET contact_value == parse_number(contact_field.number[1])
                    IN IF contact_value.exc # None THEN contact_value
                       ELSE CASE self.comparator = "=" -> Return(contact_value.val = query_value.val)
                              [] self.comparator = ">" -> Return(contact_value.val > query_value.val)
                              [] self.comparator = ">=" -> Return(contact_value.val >= query_value.val)
                              [] self.comparator = "<" -> Return(contact_value.val < query_value.val)
                              [] self.comparator = "<=" -> Return(contact_value.val <= query_value.val)
                              [] OTHER -> Raise(ValueError)
      [] field.value_type = TYPE_DATETIME ->
            LET query_value == str_to_date(self.value)
            IN IF query_value = <<>> THEN Raise(SearchException)
               ELSE IF contact_field.datetime = <<>> THEN Return(FALSE)
               ELSE LET contact_value == contact_field.datetime[1]
                        utc_range == date_to_utc_range(query_value[1], field.timezone)
                    IN CASE self.comparator = "=" ->
                                Return(contact_value >= utc_range[1] /\ contact_value < utc_range[2])
                         [] self.comparator = ">" -> Return(contact_value >= utc_range[2])
                         [] self.comparator = ">=" -> Return(contact_value >= utc_range[1])
                         [] self.comparator = "<" -> Return(contact_value < utc_range[1])
                         [] self.comparator = "<=" -> Return(contact_value < utc_range[2])
                         [] OTHER -> Raise(ValueError)
      [] field.value_type \in LocationTypes ->
            LET query_value == upper(self.value)
                location_value == IF contact_field.location = <<>> THEN <<>>
                                  ELSE contact_field.location[1]
                contact_value == LastSegment(upper(location_value))
            IN IF self.comparator = "="
               THEN Return(contact_value = query_value)
               ELSE Raise(SearchException)
      [] OTHER -> Raise(ValueError)

\* Condition.evaluate, PROP_SCHEME branch: the loop over the contact's URNs
RECURSIVE Condition_evaluate_urns(_, _, _)
Condition_evaluate_urns(self, scheme, urns) ==
    IF urns = <<>> THEN Return(FALSE)
    ELSE LET urn == Head(urns)
         IN IF urn.scheme # scheme THEN Condition_evaluate_urns(self, scheme, Tail(urns))
            ELSE CASE self.comparator = "=" ->
                        IF upper(urn.path) = upper(self.value) THEN Return(TRUE)
                        ELSE Condition_evaluate_urns(self, scheme, Tail(urns))
                   [] self.comparator = "~" ->
                        IF Contains(upper(self.value), upper(urn.path)) THEN Return(TRUE)
                        ELSE Condition_evaluate_urns(self, scheme, Tail(urns))
                   [] OTHER -> Raise(ValueError)

\* Condition.evaluate without the test for a record that lacks the field: the
\* lookup of the entry fails
Condition_evaluate_missing_entry_raises(self, contact_json, prop_map) ==
    LET prop_type == prop_map[self.prop].type
        field == prop_map[self.prop].obj
    IN CASE prop_type = PROP_FIELD ->
                IF field.id \notin DOMAIN contact_json.fields THEN Raise(ValueError)
                ELSE Condition_evaluate_field(self, field, contact_json.fields[field.id])
         [] prop_type = PROP_SCHEME ->
                Condition_evaluate_urns(self, field.key, contact_json.urns)
         [] OTHER -> Raise(ValueError)

\* Condition.evaluate
Condition_evaluate(self, contact_json, prop_map) ==
    LET prop_type == prop_map[self.prop].type
        field == prop_map[self.prop].obj
    IN CASE prop_type = PROP_FIELD ->
                IF field.id \notin DOMAIN contact_json.fields THEN Return(FALSE)
                ELSE Condition_evaluate_field(self, field, contact_json.fields[field.id])
         [] prop_type = PROP_SCHEME ->
                Condition_evaluate_urns(self, field.key, contact_json.urns)
         [] OTHER -> Raise(ValueError)

IS_SET_LOOKUPS == {"!="}

\* IS_NOT_SET_LOOKUPS with the substring comparator let in
IS_NOT_SET_LOOKUPS_with_contains == {"is", "=", "~"}

IS_NOT_SET_LOOKUPS == {"is", "="}

\* IsSetCondition.evaluate
IsSetCondition_evaluate(self, contact_json, prop_map) ==
    LET prop_type == prop_map[self.prop].type
        field == prop_map[self.prop].obj
        is_set == LowerName(self.comparator) \in IS_SET_LOOKUPS
        \* "return True if is_set else False" when present, the inverse when not
        Answer(present) == Return(is_set = present)
    IN IF LowerName(self.comparator) \notin IS_SET_LOOKUPS \cup IS_NOT_SET_LOOKUPS
       THEN Raise(SearchException)
       ELSE CASE prop_type = PROP_FIELD ->
                    IF field.id \notin DOMAIN contact_json.fields THEN Answer(FALSE)
                    ELSE LET contact_field == contact_json.fields[field.id]
                         IN CASE field.value_type = TYPE_TEXT -> Answer(TRUE)
                              [] field.value_type = TYPE_NUMBER ->
                                    Answer(contact_field.number # <<>>
                                           /\ parse_number(contact_field.number[1]).exc = None)
                              [] field.value_type = TYPE_DATETIME ->
                                    Answer(contact_field.datetime # <<>>)
                              [] field.value_type \in LocationTypes ->
                                    Answer(contact_field.location # <<>>)
                              [] OTHER -> Raise(ValueError)
              [] prop_type = PROP_SCHEME ->
                    Answer(\E i \in 1..Len(contact_json.urns) :
                               contact_json.urns[i].scheme = field.key)
              [] OTHER -> Raise(ValueError)

\* reduce(self.op, results) over booleans
RECURSIVE reduce_bool(_, _)
reduce_bool(o, results) ==
    IF Len(results) = 1 THEN results[1]
    ELSE LET rest == reduce_bool(o, SubSeq(results, 1, Len(results) - 1))
             last == results[Len(results)]
         IN IF o = AND THEN rest /\ last ELSE rest \/ last

\* the first exception raised while a list of calls is made in order, or None
FirstRaised(outcomes) ==
    IF \A i \in 1..Len(outcomes) : outcomes[i].exc = None THEN None
    ELSE outcomes[CHOOSE i \in 1..Len(outcomes) :
                      /\ outcomes[i].exc # None
                      /\ \A j \in 1..(i - 1) : outcomes[j].exc = None].exc

\* evaluate() of a node: Condition.evaluate, IsSetCondition.evaluate or
\* BoolCombination.evaluate (which SinglePropCombination inherits)
RECURSIVE evaluate(_, _, _)
evaluate(self, contact_json, prop_map) ==
    CASE self.kind = "Condition" -> Condition_evaluate(self, contact_json, prop_map)
      [] self.kind = "IsSetCondition" -> IsSetCondition_evaluate(self, contact_json, prop_map)
      [] OTHER ->
            LET outcomes == [i \in 1..Len(self.children) |->
                                evaluate(self.children[i], contact_json, prop_map)]
            IN IF FirstRaised(outcomes) # None THEN Raise(FirstRaised(outcomes))
               ELSE Return(reduce_bool(self.op, [i \in 1..Len(outcomes) |-> outcomes[i].val]))

(***************************************************************************)
(* The phone number heuristic.                                             *)
(***************************************************************************)
\* the characters of the class [+ \d\-\(\)] of TEL_VALUE_REGEX
TelChars == Digits \cup {"+", " ", "-", "(", ")"}

\* TEL_VALUE_REGEX.match(text): ^[+ \d\-\(\)]+$
TEL_VALUE_REGEX(text) == text # <<>> /\ \A i \in 1..Len(text) : text[i] \in TelChars

\* the characters of the class [+ \-\(\)] of CLEAN_SPECIAL_CHARS_REGEX
SpecialChars == {"+", " ", "-", "(", ")"}

\* CLEAN_SPECIAL_CHARS with a class that has no '+': the sign is kept
CLEAN_SPECIAL_CHARS_keep_plus(text) ==
    LET NotSpecial(c) == c \notin SpecialChars \ {"+"}
    IN SelectSeq(text, NotSpecial)

\* CLEAN_SPECIAL_CHARS_REGEX.sub('', text)
CLEAN_SPECIAL_CHARS(text) ==
    LET NotSpecial(c) == c \notin SpecialChars
    IN SelectSeq(text, NotSpecial)

\* is_phonenumber(text): (True, cleaned) or (False, None)
is_phonenumber(text) ==
    IF TEL_VALUE_REGEX(text)
    THEN [is_phone |-> TRUE, cleaned_phone |-> CLEAN_SPECIAL_CHARS(text)]
    ELSE [is_phone |-> FALSE, cleaned_phone |-> <<>>]

(***************************************************************************)
(* The grammar front end (ContactQLLexer, ContactQLParser), as far as the  *)
(* specification fixes it: a text of the characters of a TEXT token is one *)
(* token and parses as an implicit condition, the empty text is a syntax   *)
(* error; what a text with other characters parses to is left open (a      *)
(* syntax error, or a parse tree that is not modelled).                    *)
(***************************************************************************)
ImplicitConditionContext(token) ==
    [rule |-> "implicitCondition", TEXT |-> token, COMPARATOR |-> None,
     literal |-> <<>>, quoted |-> FALSE, expressions |-> <<>>]

\* expression : TEXT COMPARATOR literal, the literal a TEXT (quoted = FALSE) or a
\* STRING (quoted = TRUE, its text with the quotes)
ConditionContext(field, comparator, literal, quoted) ==
    [rule |-> "condition", TEXT |-> field, COMPARATOR |-> comparator,
     literal |-> literal, quoted |-> quoted, expressions |-> <<>>]

\* expression : expression AND expression | expression expression |
\*              expression OR expression
CombinationContext(rule, left, right) ==
    [rule |-> rule, TEXT |-> None, COMPARATOR |-> None,
     literal |-> <<>>, quoted |-> FALSE, expressions |-> <<left, right>>]

ParseCancellation == [rule |-> "ParseCancellationException"]

NotModelled == [rule |-> "not modelled"]

WordChars == Digits \cup {LowerLetters[i] : i \in 1..Len(LowerLetters)}
                    \cup {UpperLetters[i] : i \in 1..Len(UpperLetters)}

\* the characters of a TEXT token
TextChars == WordChars \cup {"_", "-"}

\* the tokens the model writes its queries with, as the front end hands them to
\* the visitor (getText()): property names and COMPARATOR tokens
TokenNames ==
    {"age", "dob", "tel", "twitter", "name", "id", "bogus", "=", "!=", ">", ">=", "<", "<=", "~", "is", "has"}

Spell(name) ==
    CASE name = "age" -> <<"a", "g", "e">>
      [] name = "dob" -> <<"d", "o", "b">>
      [] name = "tel" -> <<"t", "e", "l">>
      [] name = "twitter" -> <<"t", "w", "i", "t", "t", "e", "r">>
      [] name = "name" -> <<"n", "a", "m", "e">>
      [] name = "id" -> <<"i", "d">>
      [] name = "bogus" -> <<"b", "o", "g", "u", "s">>
      [] name = "=" -> <<"=">>
      [] name = "!=" -> <<"!", "=">>
      [] name = ">" -> <<">">>
      [] name = ">=" -> <<">", "=">>
      [] name = "<" -> <<"<">>
      [] name = "<=" -> <<"<", "=">>
      [] name = "~" -> <<"~">>
      [] name = "is" -> <<"i", "s">>
      [] name = "has" -> <<"h", "a", "s">>

COMPARATOR == {"=", "!=", ">", ">=", "<", "<=", "~", "is", "has"}

isToken(chars) == \E name \in TokenNames : Spell(name) = chars

getText(chars) == CHOOSE name \in TokenNames : Spell(name) = chars

\* the places of the spaces of a stream
Spaces(stream) == {i \in 1..Len(stream) : stream[i] = " "}

\* parser.parse() on a stream: the set of its possible results.  A stream of a
\* TEXT token, a COMPARATOR and a literal (a TEXT token or an empty STRING),
\* with one space between them, is a condition.
FrontEnd(stream) ==
    IF stream = <<>> THEN {ParseCancellation}
    ELSE IF \A i \in 1..Len(stream) : stream[i] \in TextChars
    THEN {ImplicitConditionContext(stream)}
    ELSE IF Cardinality(Spaces(stream)) = 2
    THEN LET i == CHOOSE i \in Spaces(stream) : \A j \in Spaces(stream) : i <= j
             j == CHOOSE j \in Spaces(stream) : j # i
             field == SubSeq(stream, 1, i - 1)
             comparator == SubSeq(stream, i + 1, j - 1)
             literal == SubSeq(stream, j + 1, Len(stream))
             isText == literal # <<>> /\ \A k \in 1..Len(literal) : literal[k] \in TextChars
             isString == literal = <<"\"", "\"">>
         IN IF /\ isToken(field) /\ getText(field) \notin COMPARATOR
               /\ isToken(comparator) /\ getText(comparator) \in COMPARATOR
               /\ isText \/ isString
            THEN {ConditionContext(getText(field), getText(comparator), literal, isString)}
            ELSE {ParseCancellation, NotModelled}
    ELSE {ParseCancellation, NotModelled}

(***************************************************************************)
(* ContactQLVisitor.                                                       *)
(***************************************************************************)
\* str(n) of an integer
RECURSIVE NatToStr(_)
NatToStr(n) ==
    LET digit == CHOOSE c \in Digits : DigitValue(c) = n % 10
    IN IF n < 10 THEN <<digit>> ELSE Append(NatToStr(n \div 10), digit)

IntToStr(n) == IF n < 0 THEN <<"-">> \o NatToStr(0 - n) ELSE NatToStr(n)

\* int(value) of a token: an optionally signed string of digits, else ValueError
\* (<<>>)
int(value) == Decimal(value)

\* visitImplicitCondition with the phone-number pattern tried for an anonymized
\* org as well
visitImplicitCondition_tel_as_anon(ctx, as_anon) ==
    LET value == ctx.TEXT
    IN IF as_anon /\ int(value) # <<>>
       THEN Condition("id", "=", IntToStr(int(value)[1]))
       ELSE IF TEL_VALUE_REGEX(value)
       THEN Condition("tel", "~", value)
       ELSE Condition("name", "~", value)

\* visitImplicitCondition: expression : TEXT
visitImplicitCondition(ctx, as_anon) ==
    LET value == ctx.TEXT
    IN IF as_anon /\ int(value) # <<>>
       THEN Condition("id", "=", IntToStr(int(value)[1]))
       ELSE IF ~as_anon /\ TEL_VALUE_REGEX(value)
       THEN Condition("tel", "~", value)
       ELSE Condition("name", "~", value)

\* visitTextLiteral: ctx.getText()
visitTextLiteral(text) == text

\* value.replace('""', '"'), left to right
RECURSIVE UnescapeQuotes(_)
UnescapeQuotes(value) ==
    IF Len(value) < 2 THEN value
    ELSE IF value[1] = "\"" /\ value[2] = "\""
    THEN <<"\"">> \o UnescapeQuotes(SubSeq(value, 3, Len(value)))
    ELSE <<value[1]>> \o UnescapeQuotes(Tail(value))

\* visitStringLiteral: ctx.getText()[1:-1].replace('""', '"')
visitStringLiteral(text) == UnescapeQuotes(SubSeq(text, 2, Len(text) - 1))

\* visitCondition: expression : TEXT COMPARATOR literal
visitCondition(ctx) ==
    LET prop == LowerName(ctx.TEXT)
        comparator == LowerName(ctx.COMPARATOR)
        value == IF ctx.quoted THEN visitStringLiteral(ctx.literal)
                 ELSE visitTextLiteral(ctx.literal)
    IN IF value = <<>>
       THEN IsSetCondition(prop, comparator)
       ELSE Condition(prop, comparator, value)

\* visitor.visit(tree): the nodes are created in heap h, sub-expressions first
RECURSIVE visit(_, _, _)
visit(h, ctx, as_anon) ==
    CASE ctx.rule = "implicitCondition" ->
            [heap |-> Append(h, visitImplicitCondition(ctx, as_anon)), ret |-> Len(h) + 1]
      [] ctx.rule = "condition" ->
            [heap |-> Append(h, visitCondition(ctx)), ret |-> Len(h) + 1]
      [] OTHER ->
            LET left == visit(h, ctx.expressions[1], as_anon)
                right == visit(left.heap, ctx.expressions[2], as_anon)
                o == IF ctx.rule = "combinationOr" THEN OR ELSE AND
            IN [heap |-> Append(right.heap, BoolCombination(o, <<left.ret, right.ret>>)),
                ret |-> Len(right.heap) + 1]

(***************************************************************************)
(* Property resolution.                                                    *)
(***************************************************************************)
\* SearchException("Unrecognized field: %s" % prop)
UnrecognizedField(prop) == [exc |-> SearchException, val |-> FALSE, msg |-> prop]

\* prop_map[p] = None
NoEntry == Entry(None, Named(None))

\* ResolvedProps with the schemes assigned first and the fields last
ResolvedProps_fields_last(root, org) ==
    LET searchable_attrs == {"name"} \cup (IF org.is_anon THEN {"id"} ELSE {})
        names == get_prop_names(root)
        all_props == {names[i] : i \in 1..Len(names)}
        attr_props == all_props \ searchable_attrs
        fields == {f \in org.fields : f.key \in attr_props /\ f.is_active}
    IN [p \in all_props |->
            IF \E f \in fields : f.key = p
            THEN Entry(PROP_FIELD, CHOOSE f \in fields : f.key = p)
            ELSE IF p \in searchable_attrs THEN Entry(PROP_ATTRIBUTE, Named(p))
            ELSE IF \E i \in 1..Len(SEARCHABLE_SCHEMES) : SEARCHABLE_SCHEMES[i] = p
            THEN Entry(PROP_SCHEME, Named(p))
            ELSE NoEntry]

\* ContactQuery.get_prop_map: the resolution of the property names of tree root, up
\* to the loop that raises for the names left unresolved
ResolvedProps(root, org) ==
    LET searchable_attrs == {"name"} \cup (IF org.is_anon THEN {"id"} ELSE {})
        names == get_prop_names(root)
        all_props == {names[i] : i \in 1..Len(names)}
        attr_props == all_props \ searchable_attrs
        fields == {f \in org.fields : f.key \in attr_props /\ f.is_active}
        by_field == [p \in all_props |->
                        IF \E f \in fields : f.key = p
                        THEN Entry(PROP_FIELD, CHOOSE f \in fields : f.key = p)
                        ELSE NoEntry]
        by_attr == [p \in all_props |->
                        IF p \in searchable_attrs THEN Entry(PROP_ATTRIBUTE, Named(p))
                        ELSE by_field[p]]
    IN [p \in all_props |->
            IF \E i \in 1..Len(SEARCHABLE_SCHEMES) : SEARCHABLE_SCHEMES[i] = p
            THEN Entry(PROP_SCHEME, Named(p))
            ELSE by_attr[p]]

\* get_prop_map without the loop that raises for the unresolved names
get_prop_map_no_raise(root, org) == {Return(ResolvedProps(root, org))}

\* ContactQuery.get_prop_map: the outcomes it can have (it raises for the first
\* unresolved name its dictionary yields)
get_prop_map(root, org) ==
    LET prop_map == ResolvedProps(root, org)
        unresolved == {p \in DOMAIN prop_map : prop_map[p] = NoEntry}
    IN IF unresolved = {} THEN {Return(prop_map)}
       ELSE {UnrecognizedField(p) : p \in unresolved}

(***************************************************************************)
(* The relational backend.  as_query() builds a Q object, kept symbolic:   *)
(*   Q_id(v)                   Q(id=v)                                     *)
(*   Q_attr(a, lookup, v)      Q(a__lookup=v)                              *)
(*   Q_urns(scheme, lookup, v) Q(id__in=ContactURN rows of the org with    *)
(*                               that scheme and path__lookup=v)           *)
(*   Q_values(where)           Q(id__in=Value rows satisfying where)       *)
(*   Q_not, Q_and, Q_or        ~, &, |                                     *)
(* where is a filter on Value rows: Params (the conjunction of keyword     *)
(* lookups) or a combination of such filters.                              *)
(***************************************************************************)
STRING_VALUE_COMPARISON_LIMIT == 32

Q_id(v) == [q |-> "id", v |-> v]
Q_attr(attr, lookup, v) == [q |-> "attr", attr |-> attr, lookup |-> lookup, v |-> v]
Q_urns(scheme, lookup, v) == [q |-> "urns", scheme |-> scheme, lookup |-> lookup, v |-> v]
Q_values(where) == [q |-> "values", where |-> where]
Q_not(a) == [q |-> "not", a |-> a]
Q_and(a, b) == [q |-> "and", a |-> a, b |-> b]
Q_or(a, b) == [q |-> "or", a |-> a, b |-> b]

Lookup(column, lookup, v) == [column |-> column, lookup |-> lookup, v |-> v]

Params(lookups) == [w |-> "params", lookups |-> lookups]

W_and(a, b) == [w |-> "and", a |-> a, b |-> b]
W_or(a, b) == [w |-> "or", a |-> a, b |-> b]

ATTR_OR_URN_LOOKUPS == [c \in {"=", "~"} |-> IF c = "=" THEN "iexact" ELSE "icontains"]

TEXT_LOOKUPS == [c \in {"="} |-> "iexact"]

NUMBER_LOOKUPS ==
    [c \in {"=", ">", ">=", "<", "<="} |->
        CASE c = "=" -> "exact" [] c = ">" -> "gt" [] c = ">=" -> "gte"
          [] c = "<" -> "lt" [] c = "<=" -> "lte"]

DATETIME_LOOKUPS ==
    [c \in {"=", ">", ">=", "<", "<="} |->
        CASE c = "=" -> "<equal>" [] c = ">" -> "gt" [] c = ">=" -> "gte"
          [] c = "<" -> "lt" [] c = "<=" -> "lte"]

LOCATION_LOOKUPS == [c \in {"="} |-> "iexact"]

\* BOUNDARY_LEVELS_BY_VALUE_TYPE
BOUNDARY_LEVELS_BY_VALUE_TYPE(value_type) ==
    CASE value_type = TYPE_STATE -> 1
      [] value_type = TYPE_DISTRICT -> 2
      [] value_type = TYPE_WARD -> 3

\* index_key with the whole value, not its first STRING_VALUE_COMPARISON_LIMIT
\* characters
index_key_whole_value(f, val) == NatToStr(f.id) \o <<"|">> \o upper(val)

\* index_key(f, val): '%d|%s' % (f.id, val[:STRING_VALUE_COMPARISON_LIMIT].upper())
index_key(f, val) ==
    NatToStr(f.id) \o <<"|">> \o
    upper(SubSeq(val, 1, IF Len(val) < STRING_VALUE_COMPARISON_LIMIT
                         THEN Len(val) ELSE STRING_VALUE_COMPARISON_LIMIT))

\* a Condition whose value is a list of values (SinglePropCombination.as_query
\* builds one: Condition(self.prop, '=', [c.value for c in self.children]))
ListCondition(prop, comparator, values) ==
    [kind |-> "ListCondition", prop |-> prop, comparator |-> comparator,
     value |-> values, op |-> None, children |-> <<>>]

\* isinstance(self.value, list)
isList(self) == self.kind = "ListCondition"

\* the outcomes of [self._parse_number(v) for v in self.value]
parse_numbers(values) ==
    LET outcomes == [i \in 1..Len(values) |-> parse_number(values[i])]
    IN IF FirstRaised(outcomes) # None THEN Raise(FirstRaised(outcomes))
       ELSE Return([i \in 1..Len(values) |-> outcomes[i].val])

\* Condition._build_text_field_params
build_text_field_params(self, field) ==
    IF isList(self)
    THEN Return(Params(<<Lookup("field_and_string_value", "in",
                                [i \in 1..Len(self.value) |-> index_key(field, self.value[i])])>>))
    ELSE IF self.comparator \notin DOMAIN TEXT_LOOKUPS THEN Raise(SearchException)
    ELSE Return(Params(<<Lookup("field_and_string_value", "exact",
                                index_key(field, self.value))>>))

\* Condition._build_number_field_params
build_number_field_params(self, field) ==
    IF isList(self)
    THEN IF parse_numbers(self.value).exc # None THEN parse_numbers(self.value)
         ELSE Return(Params(<<Lookup("contact_field", "exact", field.id),
                              Lookup("decimal_value", "in", parse_numbers(self.value).val)>>))
    ELSE IF self.comparator \notin DOMAIN NUMBER_LOOKUPS THEN Raise(SearchException)
    ELSE IF parse_number(self.value).exc # None THEN parse_number(self.value)
    ELSE Return(Params(<<Lookup("contact_field", "exact", field.id),
                         Lookup("decimal_value", NUMBER_LOOKUPS[self.comparator],
                                parse_number(self.value).val)>>))

\* _build_datetime_field_params with every comparison made against the start of
\* the range
build_datetime_field_params_from_start(self, field) ==
    IF self.comparator \notin DOMAIN DATETIME_LOOKUPS THEN Raise(SearchException)
    ELSE IF isList(self) \/ str_to_date(self.value) = <<>> THEN Raise(SearchException)
    ELSE LET lookup == DATETIME_LOOKUPS[self.comparator]
             utc_range == date_to_utc_range(str_to_date(self.value)[1], field.timezone)
             contact_field == Lookup("contact_field", "exact", field.id)
         IN Return(Params(
                CASE lookup = "<equal>" ->
                        <<contact_field, Lookup("datetime_value", "gte", utc_range[1]),
                          Lookup("datetime_value", "lt", utc_range[2])>>
                  [] lookup \in {"lt", "lte"} ->
                        <<contact_field, Lookup("datetime_value", "lt", utc_range[1])>>
                  [] lookup \in {"gt", "gte"} ->
                        <<contact_field, Lookup("datetime_value", "gte", utc_range[1])>>))

\* Condition._build_datetime_field_params
build_datetime_field_params(self, field) ==
    IF self.comparator \notin DOMAIN DATETIME_LOOKUPS THEN Raise(SearchException)
    ELSE IF isList(self) \/ str_to_date(self.value) = <<>> THEN Raise(SearchException)
    ELSE LET lookup == DATETIME_LOOKUPS[self.comparator]
             utc_range == date_to_utc_range(str_to_date(self.value)[1], field.timezone)
             contact_field == Lookup("contact_field", "exact", field.id)
         IN Return(Params(
                CASE lookup = "<equal>" ->
                        <<contact_field, Lookup("datetime_value", "gte", utc_range[1]),
                          Lookup("datetime_value", "lt", utc_range[2])>>
                  [] lookup = "lt" -> <<contact_field, Lookup("datetime_value", "lt", utc_range[1])>>
                  [] lookup = "lte" -> <<contact_field, Lookup("datetime_value", "lt", utc_range[2])>>
                  [] lookup = "gt" -> <<contact_field, Lookup("datetime_value", "gte", utc_range[2])>>
                  [] lookup = "gte" -> <<contact_field, Lookup("datetime_value", "gte", utc_range[1])>>))

\* Condition._build_location_field_params: location_value__in the AdminBoundary
\* rows of the field's level whose name is the value, or one of the values
\* (iexact)
build_location_field_params(self, field) ==
    IF self.comparator \notin DOMAIN LOCATION_LOOKUPS THEN Raise(SearchException)
    ELSE Return(Params(<<Lookup("contact_field", "exact", field.id),
                         Lookup("location_value", "in",
                                [level |-> BOUNDARY_LEVELS_BY_VALUE_TYPE(field.value_type),
                                 names |-> IF isList(self) THEN self.value
                                           ELSE <<self.value>>])>>))

\* Condition.build_value_query_params
build_value_query_params(self, field) ==
    CASE field.value_type = TYPE_TEXT -> build_text_field_params(self, field)
      [] field.value_type = TYPE_NUMBER -> build_number_field_params(self, field)
      [] field.value_type = TYPE_DATETIME -> build_datetime_field_params(self, field)
      [] field.value_type \in LocationTypes -> build_location_field_params(self, field)
      [] OTHER -> Raise(ValueError)

\* Condition.as_query
Condition_as_query(self, org, prop_map) ==
    LET prop_type == prop_map[self.prop].type
        prop_obj == prop_map[self.prop].obj
    IN CASE prop_type = PROP_FIELD ->
                \* _build_value_query
                LET params == build_value_query_params(self, prop_obj)
                IN IF params.exc # None THEN params ELSE Return(Q_values(params.val))
         [] prop_type = PROP_SCHEME ->
                IF org.is_anon THEN Return(Q_id(-1))
                \* _build_urn_query
                ELSE IF self.comparator \notin DOMAIN ATTR_OR_URN_LOOKUPS
                THEN Raise(SearchException)
                ELSE Return(Q_urns(prop_obj.key, ATTR_OR_URN_LOOKUPS[self.comparator], self.value))
         [] OTHER ->
                \* _build_attr_query
                IF self.comparator \notin DOMAIN ATTR_OR_URN_LOOKUPS
                THEN Raise(SearchException)
                ELSE Return(Q_attr(prop_obj.key, ATTR_OR_URN_LOOKUPS[self.comparator], self.value))

\* the column of the Value table that holds the values of a field type
ValueColumn(value_type) ==
    CASE value_type = TYPE_TEXT -> "string_value"
      [] value_type = TYPE_NUMBER -> "decimal_value"
      [] value_type = TYPE_DATETIME -> "datetime_value"
      [] value_type \in LocationTypes -> "location_value"

\* IsSetCondition.as_query
IsSetCondition_as_query(self, org, prop_map) ==
    LET prop_type == prop_map[self.prop].type
        prop_obj == prop_map[self.prop].obj
        is_set == LowerName(self.comparator) \in IS_SET_LOOKUPS
        Answer(query) == Return(IF is_set THEN query ELSE Q_not(query))
    IN IF LowerName(self.comparator) \notin IS_SET_LOOKUPS \cup IS_NOT_SET_LOOKUPS
       THEN Raise(SearchException)
       ELSE CASE prop_type = PROP_FIELD ->
                    IF prop_obj.value_type \notin {TYPE_TEXT, TYPE_NUMBER, TYPE_DATETIME}
                                                   \cup LocationTypes
                    THEN Raise(ValueError)
                    ELSE Answer(Q_values(Params(
                            <<Lookup("contact_field", "exact", prop_obj.id),
                              Lookup(ValueColumn(prop_obj.value_type), "isnull", FALSE)>>)))
              [] prop_type = PROP_SCHEME ->
                    IF org.is_anon THEN Return(Q_id(-1))
                    ELSE Answer(Q_urns(prop_obj.key, None, <<>>))
              [] OTHER ->
                    \* where_not_set = Q(attr="") | Q(attr=None); ~where_not_set if is_set
                    LET where_not_set == Q_or(Q_attr(prop_obj.key, "exact", <<>>),
                                              Q_attr(prop_obj.key, "isnull", <<>>))
                    IN Return(IF is_set THEN Q_not(where_not_set) ELSE where_not_set)

\* reduce(self.op, queries) over Q objects
RECURSIVE reduce_Q(_, _)
reduce_Q(o, queries) ==
    IF Len(queries) = 1 THEN queries[1]
    ELSE LET rest == reduce_Q(o, SubSeq(queries, 1, Len(queries) - 1))
             last == queries[Len(queries)]
         IN IF o = AND THEN Q_and(rest, last) ELSE Q_or(rest, last)

\* reduce(self.op, value_queries) over the Q(**params) of Value rows
RECURSIVE reduce_W(_, _)
reduce_W(o, value_queries) ==
    IF Len(value_queries) = 1 THEN value_queries[1]
    ELSE LET rest == reduce_W(o, SubSeq(value_queries, 1, Len(value_queries) - 1))
             last == value_queries[Len(value_queries)]
         IN IF o = AND THEN W_and(rest, last) ELSE W_or(rest, last)

\* SinglePropCombination.as_query folding the equality checks whatever the
\* operator is
SinglePropCombination_as_query_any_op(self, org, prop_map) ==
    LET prop_obj == prop_map[self.prop].obj
        all_equality == \A i \in 1..Len(self.children) : self.children[i].comparator = "="
    IN IF all_equality /\ prop_obj.value_type # TYPE_DATETIME
       THEN LET in_condition ==
                    ListCondition(self.prop, "=",
                                  [i \in 1..Len(self.children) |-> self.children[i].value])
            IN Condition_as_query(in_condition, org, prop_map)
       ELSE LET params == [i \in 1..Len(self.children) |->
                              build_value_query_params(self.children[i], prop_obj)]
            IN IF FirstRaised(params) # None THEN Raise(FirstRaised(params))
               ELSE Return(Q_values(reduce_W(self.op,
                                             [i \in 1..Len(params) |-> params[i].val])))

\* SinglePropCombination.as_query, PROP_FIELD branch
SinglePropCombination_as_query(self, org, prop_map) ==
    LET prop_obj == prop_map[self.prop].obj
        all_equality == \A i \in 1..Len(self.children) : self.children[i].comparator = "="
    IN IF self.op = OR /\ all_equality /\ prop_obj.value_type # TYPE_DATETIME
       THEN LET in_condition ==
                    ListCondition(self.prop, "=",
                                  [i \in 1..Len(self.children) |-> self.children[i].value])
            IN Condition_as_query(in_condition, org, prop_map)
       ELSE LET params == [i \in 1..Len(self.children) |->
                              build_value_query_params(self.children[i], prop_obj)]
            IN IF FirstRaised(params) # None THEN Raise(FirstRaised(params))
               ELSE Return(Q_values(reduce_W(self.op,
                                             [i \in 1..Len(params) |-> params[i].val])))

\* as_query() of a node: Condition.as_query, IsSetCondition.as_query,
\* SinglePropCombination.as_query or BoolCombination.as_query
RECURSIVE as_query(_, _, _)
as_query(self, org, prop_map) ==
    CASE self.kind \in {"Condition", "ListCondition"} -> Condition_as_query(self, org, prop_map)
      [] self.kind = "IsSetCondition" -> IsSetCondition_as_query(self, org, prop_map)
      [] self.kind = "SinglePropCombination" /\ prop_map[self.prop].type = PROP_FIELD ->
            SinglePropCombination_as_query(self, org, prop_map)
      [] OTHER ->
            LET outcomes == [i \in 1..Len(self.children) |->
                                as_query(self.children[i], org, prop_map)]
            IN IF FirstRaised(outcomes) # None THEN Raise(FirstRaised(outcomes))
               ELSE Return(reduce_Q(self.op, [i \in 1..Len(outcomes) |-> outcomes[i].val]))

(***************************************************************************)
(* What a Q object selects.  The rows of the Value and ContactURN tables   *)
(* of a contact are those its record (contact_json) is the denormalized    *)
(* form of: one Value row per field entry, one ContactURN row per URN.     *)
(***************************************************************************)
\* the level of the AdminBoundary a location path names: 0 for a country,
\* one more for every ' > '
BoundaryLevel(path) ==
    Cardinality({i \in 1..(Len(path) - 2) : SubSeq(path, i, i + 2) = <<" ", ">", " ">>})

\* the Value row of contact field id: string_value, decimal_value,
\* datetime_value, location_value (<<>>: NULL)
ValueRow(id, contact_field) ==
    [contact_field |-> id,
     string_value |-> <<contact_field.text>>,
     decimal_value |-> IF contact_field.number = <<>> THEN <<>>
                       ELSE Decimal(contact_field.number[1]),
     datetime_value |-> contact_field.datetime,
     location_value |-> IF contact_field.location = <<>> THEN <<>>
                        ELSE <<[name |-> LastSegment(contact_field.location[1]),
                                level |-> BoundaryLevel(contact_field.location[1])]>>]

ValueRows(contact_json) ==
    {ValueRow(id, contact_json.fields[id]) : id \in DOMAIN contact_json.fields}

\* the annotation of get_base_value_query():
\* Concat('contact_field_id', Val('|'), Upper(Substr('string_value', 1, LIMIT)))
field_and_string_value(row) ==
    IF row.string_value = <<>> THEN <<>>
    ELSE LET string_value == row.string_value[1]
         IN <<NatToStr(row.contact_field) \o <<"|">> \o
              upper(SubSeq(string_value, 1,
                           IF Len(string_value) < STRING_VALUE_COMPARISON_LIMIT
                           THEN Len(string_value) ELSE STRING_VALUE_COMPARISON_LIMIT))>>

\* whether a Value row satisfies one keyword lookup
LookupMatches(l, row) ==
    LET column == CASE l.column = "contact_field" -> <<row.contact_field>>
                    [] l.column = "field_and_string_value" -> field_and_string_value(row)
                    [] l.column = "string_value" -> row.string_value
                    [] l.column = "decimal_value" -> row.decimal_value
                    [] l.column = "datetime_value" -> row.datetime_value
                    [] l.column = "location_value" -> row.location_value
    IN CASE l.lookup = "isnull" -> (column = <<>>) = l.v
         [] column = <<>> -> FALSE
         [] l.column = "location_value" ->
                /\ column[1].level = l.v.level
                /\ \E i \in 1..Len(l.v.names) : upper(column[1].name) = upper(l.v.names[i])
         [] l.lookup = "exact" -> column[1] = l.v
         [] l.lookup = "in" -> \E i \in 1..Len(l.v) : column[1] = l.v[i]
         [] l.lookup = "gt" -> column[1] > l.v
         [] l.lookup = "gte" -> column[1] >= l.v
         [] l.lookup = "lt" -> column[1] < l.v
         [] l.lookup = "lte" -> column[1] <= l.v

\* whether a Value row satisfies a filter
RECURSIVE WhereMatches(_, _)
WhereMatches(where, row) ==
    CASE where.w = "params" ->
            \A i \in 1..Len(where.lookups) : LookupMatches(where.lookups[i], row)
      [] where.w = "and" -> WhereMatches(where.a, row) /\ WhereMatches(where.b, row)
      [] where.w = "or" -> WhereMatches(where.a, row) \/ WhereMatches(where.b, row)

\* whether base_queryset.filter(query) selects the contact
RECURSIVE Selects(_, _)
Selects(query, contact_json) ==
    CASE query.q = "id" -> contact_json.id = query.v
      [] query.q = "attr" ->
            LET column == IF query.attr = "id" THEN IntToStr(contact_json.id)
                          ELSE contact_json.name
            IN (CASE query.lookup = "iexact" -> upper(column) = upper(query.v)
                  [] query.lookup = "icontains" -> Contains(upper(query.v), upper(column))
                  [] query.lookup = "exact" -> column = query.v
                  [] query.lookup = "isnull" -> FALSE)
      [] query.q = "urns" ->
            \E i \in 1..Len(contact_json.urns) :
                LET urn == contact_json.urns[i]
                IN /\ urn.scheme = query.scheme
                   /\ CASE query.lookup = "iexact" -> upper(urn.path) = upper(query.v)
                        [] query.lookup = "icontains" -> Contains(upper(query.v), upper(urn.path))
                        [] OTHER -> TRUE
      [] query.q = "values" ->
            \E row \in ValueRows(contact_json) : WhereMatches(query.where, row)
      [] query.q = "not" -> ~Selects(query.a, contact_json)
      [] query.q = "and" -> Selects(query.a, contact_json) /\ Selects(query.b, contact_json)
      [] query.q = "or" -> Selects(query.a, contact_json) \/ Selects(query.b, contact_json)

(***************************************************************************)
(* The search-index backend.  as_elasticsearch() builds an es_Q object,    *)
(* kept symbolic: es_Q(name, field, v) for the leaf queries (term, match,  *)
(* match_phrase, range, exists, ids), es_nested(path, query), and es_and,  *)
(* es_or, es_not for &, | and ~.                                           *)
(***************************************************************************)
es_Q(name, field, v) == [es |-> name, field |-> field, v |-> v, a |-> <<>>, b |-> <<>>]

es_nested(path, query) == [es |-> "nested", field |-> path, v |-> <<>>, a |-> <<query>>, b |-> <<>>]

es_and(a, b) == [es |-> "and", field |-> None, v |-> <<>>, a |-> <<a>>, b |-> <<b>>]

es_or(a, b) == [es |-> "or", field |-> None, v |-> <<>>, a |-> <<a>>, b |-> <<b>>]

es_not(a) == [es |-> "not", field |-> None, v |-> <<>>, a |-> <<a>>, b |-> <<>>]

\* es_Q('ids', values=[-1]); the index holds ids as text
es_ids_none == es_Q("ids", "values", <<IntToStr(-1)>>)

\* six.text_type(date) of the UTC day d: 2020-01-14 is day 0
DateText(d) == <<"2", "0", "2", "0", "-", "0", "1", "-">> \o NatToStr(14 + d)

\* utc_range[0].date(): the UTC day of an instant
UtcDay(t) == t \div SecondsPerDay

\* the range operators of the number and datetime branches
ES_RANGE == [c \in {">", ">=", "<", "<="} |->
                CASE c = ">" -> "gt" [] c = ">=" -> "gte" [] c = "<" -> "lt" [] c = "<=" -> "lte"]

\* the index field of a field's values
FieldName(value_type) ==
    CASE value_type = TYPE_TEXT -> "fields.text"
      [] value_type = TYPE_NUMBER -> "fields.number"
      [] value_type = TYPE_DATETIME -> "fields.datetime"
      [] value_type = TYPE_STATE -> "fields.state"
      [] value_type = TYPE_DISTRICT -> "fields.district"
      [] value_type = TYPE_WARD -> "fields.ward"

\* field_name += '.keyword', of a location field
KeywordName(value_type) ==
    CASE value_type = TYPE_STATE -> "fields.state.keyword"
      [] value_type = TYPE_DISTRICT -> "fields.district.keyword"
      [] value_type = TYPE_WARD -> "fields.ward.keyword"

\* Condition.as_elasticsearch, PROP_FIELD branch
Condition_as_elasticsearch_field(self, field) ==
    LET es_query == es_Q("term", "fields.field", field.id)
        Nested(query) == Return(es_nested("fields", es_and(es_query, query)))
    IN CASE field.value_type = TYPE_TEXT ->
                IF self.comparator = "="
                THEN Nested(es_Q("term", "fields.text", lower(self.value)))
                ELSE Raise(ValueError)
         [] field.value_type = TYPE_NUMBER ->
                IF parse_number(self.value).exc # None THEN parse_number(self.value)
                ELSE LET query_value == IntToStr(parse_number(self.value).val)
                     IN CASE self.comparator = "=" ->
                                Nested(es_Q("match", "fields.number", query_value))
                          [] self.comparator \in DOMAIN ES_RANGE ->
                                Nested(es_Q("range", "fields.number",
                                            <<ES_RANGE[self.comparator], query_value>>))
                          [] OTHER -> Raise(ValueError)
         [] field.value_type = TYPE_DATETIME ->
                IF str_to_date(self.value) = <<>> THEN Raise(SearchException)
                ELSE LET utc_range == date_to_utc_range(str_to_date(self.value)[1],
                                                        field.timezone)
                         utc_date == DateText(UtcDay(utc_range[1]))
                     IN CASE self.comparator = "=" ->
                                Nested(es_Q("match", "fields.datetime", utc_date))
                          [] self.comparator \in DOMAIN ES_RANGE ->
                                Nested(es_Q("range", "fields.datetime",
                                            <<ES_RANGE[self.comparator], utc_date>>))
                          [] OTHER -> Raise(ValueError)
         [] field.value_type \in LocationTypes ->
                IF self.comparator = "="
                THEN Nested(es_Q("term", KeywordName(field.value_type), lower(self.value)))
                ELSE Raise(SearchException)
         [] OTHER -> Raise(ValueError)

\* Condition.as_elasticsearch
Condition_as_elasticsearch(self, org, prop_map) ==
    LET prop_type == prop_map[self.prop].type
        field == prop_map[self.prop].obj
        query_value == lower(self.value)
    IN CASE prop_type = PROP_FIELD -> Condition_as_elasticsearch_field(self, field)
         [] prop_type = PROP_ATTRIBUTE ->
                CASE field.key = "name" /\ self.comparator = "=" ->
                        Return(es_Q("term", "name.keyword", query_value))
                  [] field.key = "name" /\ self.comparator = "~" ->
                        Return(es_Q("match", "name", query_value))
                  [] field.key = "name" -> Raise(ValueError)
                  [] field.key = "id" -> Return(es_Q("ids", "values", <<query_value>>))
                  [] OTHER -> Raise(ValueError)
         [] prop_type = PROP_SCHEME ->
                LET es_query == es_Q("term", "urns.scheme", LowerName(field.key))
                IN IF org.is_anon THEN Return(es_ids_none)
                   ELSE Return(es_nested("urns",
                            CASE self.comparator = "=" ->
                                    es_and(es_query, es_Q("term", "urns.path.keyword", query_value))
                              [] self.comparator = "~" ->
                                    es_and(es_query, es_Q("match_phrase", "urns.path", query_value))
                              [] OTHER -> es_query))
         [] OTHER -> Raise(ValueError)

\* IsSetCondition.as_elasticsearch
IsSetCondition_as_elasticsearch(self, org, prop_map) ==
    LET prop_type == prop_map[self.prop].type
        field == prop_map[self.prop].obj
        is_set == LowerName(self.comparator) \in IS_SET_LOOKUPS
        Answer(query) == Return(IF is_set THEN query ELSE es_not(query))
    IN IF LowerName(self.comparator) \notin IS_SET_LOOKUPS \cup IS_NOT_SET_LOOKUPS
       THEN Raise(SearchException)
       ELSE CASE prop_type = PROP_FIELD ->
                    IF field.value_type \notin {TYPE_TEXT, TYPE_NUMBER, TYPE_DATETIME}
                                                \cup LocationTypes
                    THEN Raise(ValueError)
                    ELSE Answer(es_nested("fields",
                                    es_and(es_Q("term", "fields.field", field.id),
                                           es_Q("exists", "field", FieldName(field.value_type)))))
              [] prop_type = PROP_SCHEME ->
                    IF org.is_anon THEN Return(es_ids_none)
                    ELSE Answer(es_nested("urns",
                                    es_and(es_Q("exists", "field", "urns.path"),
                                           es_Q("term", "urns.scheme", LowerName(field.key)))))
              [] prop_type = PROP_ATTRIBUTE ->
                    CASE field.key = "name" ->
                            Return(IF is_set THEN es_not(es_Q("term", "name", <<>>))
                                   ELSE es_Q("term", "name", <<>>))
                      [] field.key = "id" -> Raise(SearchException)
                      [] OTHER -> Raise(ValueError)
              [] OTHER -> Raise(ValueError)

\* reduce(self.op, queries) over es_Q objects
RECURSIVE reduce_es(_, _)
reduce_es(o, queries) ==
    IF Len(queries) = 1 THEN queries[1]
    ELSE LET rest == reduce_es(o, SubSeq(queries, 1, Len(queries) - 1))
             last == queries[Len(queries)]
         IN IF o = AND THEN es_and(rest, last) ELSE es_or(rest, last)

\* as_elasticsearch() of a node: Condition.as_elasticsearch,
\* IsSetCondition.as_elasticsearch or BoolCombination.as_elasticsearch (which
\* SinglePropCombination inherits)
RECURSIVE as_elasticsearch(_, _, _)
as_elasticsearch(self, org, prop_map) ==
    CASE self.kind = "Condition" -> Condition_as_elasticsearch(self, org, prop_map)
      [] self.kind = "IsSetCondition" -> IsSetCondition_as_elasticsearch(self, org, prop_map)
      [] OTHER ->
            LET outcomes == [i \in 1..Len(self.children) |->
                                as_elasticsearch(self.children[i], org, prop_map)]
            IN IF FirstRaised(outcomes) # None THEN Raise(FirstRaised(outcomes))
               ELSE Return(reduce_es(self.op, [i \in 1..Len(outcomes) |-> outcomes[i].val]))

(***************************************************************************)
(* What an es_Q object selects, for the queries whose meaning does not     *)
(* depend on the analyzers of the index: ids, exists, term on a field's    *)
(* id or a URN's scheme, nested, and their combinations.  The document of  *)
(* a contact holds its id, and nested its field entries and its URNs.      *)
(***************************************************************************)
\* whether an element of the nested path satisfies the query
RECURSIVE ES_Matches(_, _)
ES_Matches(query, element) ==
    CASE query.es = "term" /\ query.field = "fields.field" -> element.field = query.v
      [] query.es = "term" /\ query.field = "urns.scheme" -> element.scheme = query.v
      [] query.es = "exists" ->
            (CASE query.v = "fields.text" -> TRUE
               [] query.v = "fields.number" -> element.entry.number # <<>>
               [] query.v = "fields.datetime" -> element.entry.datetime # <<>>
               [] query.v \in {"fields.state", "fields.district", "fields.ward"} ->
                     element.entry.location # <<>>
               [] query.v = "urns.path" -> TRUE)
      [] query.es = "and" -> ES_Matches(query.a[1], element) /\ ES_Matches(query.b[1], element)
      [] query.es = "or" -> ES_Matches(query.a[1], element) \/ ES_Matches(query.b[1], element)
      [] query.es = "not" -> ~ES_Matches(query.a[1], element)

\* whether the search selects the contact's document
RECURSIVE ES_Selects(_, _)
ES_Selects(query, contact_json) ==
    CASE query.es = "ids" ->
            \E i \in 1..Len(query.v) : query.v[i] = IntToStr(contact_json.id)
      [] query.es = "nested" /\ query.field = "fields" ->
            \E id \in DOMAIN contact_json.fields :
                ES_Matches(query.a[1], [field |-> id, entry |-> contact_json.fields[id]])
      [] query.es = "nested" /\ query.field = "urns" ->
            \E i \in 1..Len(contact_json.urns) : ES_Matches(query.a[1], contact_json.urns[i])
      [] query.es = "and" ->
            ES_Selects(query.a[1], contact_json) /\ ES_Selects(query.b[1], contact_json)
      [] query.es = "or" ->
            ES_Selects(query.a[1], contact_json) \/ ES_Selects(query.b[1], contact_json)
      [] query.es = "not" -> ~ES_Selects(query.a[1], contact_json)

(***************************************************************************)
(* The module's functions and the methods of ContactQuery.                 *)
(***************************************************************************)
\* parse_query(text, optimize, as_anon), the nodes created in heap h: the set of
\* its possible results, each with the stream handed to the lexer
parse_query(h, text, optimize, as_anon) ==
    LET phone == is_phonenumber(text)
        stream == IF ~as_anon /\ phone.is_phone THEN phone.cleaned_phone ELSE text
        Parsed(tree) ==
            IF tree = ParseCancellation
            THEN [exc |-> SearchException, heap |-> h, ret |-> 0, stream |-> stream]
            ELSE LET query == visit(h, tree, as_anon)
                     result == IF optimize THEN optimized(query.heap, query.ret) ELSE query
                 IN [exc |-> None, heap |-> result.heap, ret |-> result.ret, stream |-> stream]
    IN {Parsed(tree) : tree \in FrontEnd(stream) \ {NotModelled}}

\* ContactQuery.as_query
ContactQuery_as_query(root, org) ==
    {IF prop_map.exc # None THEN prop_map ELSE as_query(root, org, prop_map.val) :
        prop_map \in get_prop_map(root, org)}

\* ContactQuery.evaluate
ContactQuery_evaluate(root, org, contact_json) ==
    {IF prop_map.exc # None THEN prop_map ELSE evaluate(root, contact_json, prop_map.val) :
        prop_map \in get_prop_map(root, org)}

\* ContactQuery.as_elasticsearch
ContactQuery_as_elasticsearch(root, org) ==
    {IF prop_map.exc # None THEN prop_map ELSE as_elasticsearch(root, org, prop_map.val) :
        prop_map \in get_prop_map(root, org)}

\* extract_fields, after parse_query: the fields of the prop_map, as a set
extract_fields(root, org) ==
    {IF prop_map.exc # None THEN prop_map
     ELSE Return({prop_map.val[p].obj : p \in {n \in DOMAIN prop_map.val :
                                                 prop_map.val[n].type = PROP_FIELD}}) :
        prop_map \in get_prop_map(root, org)}

\* can_be_dynamic_group with id allowed
can_be_dynamic_group_name_only(root) ==
    LET props_not_allowed == {"name"}
        names == get_prop_names(root)
        prop_names == {names[i] : i \in 1..Len(names)}
    IN prop_names \cap props_not_allowed = {}

\* ContactQuery.can_be_dynamic_group
can_be_dynamic_group(root) ==
    LET props_not_allowed == {"name", "id"}
        names == get_prop_names(root)
        prop_names == {names[i] : i \in 1..Len(names)}
    IN prop_names \cap props_not_allowed = {}

(***************************************************************************)
(* The conditions a parsed query is built from.                            *)
(***************************************************************************)
LeafContexts ==
    {ConditionContext("age", ">", <<"1", "8">>, FALSE),
     ConditionContext("age", "<", <<"6", "5">>, FALSE),
     ConditionContext("gender", "=", <<"M">>, FALSE)}

(***************************************************************************)
(* ContactQLVisitor: the visit of a parse tree completes its               *)
(* sub-expressions left to right, each leaving its node on the stack.      *)
(***************************************************************************)
Leaves(h) == Cardinality({i \in 1..Len(h) : isCondition(h[i])})

VisitCondition ==
    /\ q = 0
    /\ Leaves(heap) < MaxLeaves
    /\ \E ctx \in LeafContexts :
          /\ heap' = Append(heap, visitCondition(ctx))
          /\ stack' = Append(stack, Len(heap) + 1)
    /\ UNCHANGED <<q, r, op, pre, api, migration>>

VisitCombination(o) ==
    /\ q = 0
    /\ Len(stack) >= 2
    /\ LET n == Len(stack)
       IN /\ heap' = Append(heap, BoolCombination(o, <<stack[n - 1], stack[n]>>))
          /\ stack' = Append(SubSeq(stack, 1, n - 2), Len(heap) + 1)
    /\ UNCHANGED <<q, r, op, pre, api, migration>>

VisitCombinationAnd == VisitCombination(AND)

VisitCombinationOr == VisitCombination(OR)

\* parse_query(optimize=False): ContactQuery(visitor.visit(tree))
ContactQuery ==
    /\ q = 0
    /\ Len(stack) = 1
    /\ q' = stack[1]
    /\ stack' = <<>>
    /\ UNCHANGED <<heap, r, op, pre, api, migration>>

\* a call of an optimizer method on node self
Call(name, self, res) ==
    /\ heap' = res.heap
    /\ r' = res.ret
    /\ op' = name
    /\ pre' = Tree(heap, self)
    /\ UNCHANGED <<stack, q, api, migration>>

\* q.root.simplify()
Simplify ==
    /\ q # 0
    /\ op = None
    /\ Call("simplify", q, simplify(heap, q))

\* q.root.split_by_prop(), or split_by_prop() on the node simplify() returned
\* (the second half of optimized())
SplitByProp ==
    /\ q # 0
    /\ op \in {None, "simplify"}
    /\ LET self == IF op = None THEN q ELSE r
       IN Call("split_by_prop", self, split_by_prop(heap, self))

\* q.optimized()
Optimized ==
    /\ q # 0
    /\ op = None
    /\ Call("optimized", q, optimized(heap, q))

OptInit ==
    /\ heap = <<>>
    /\ stack = <<>>
    /\ q = 0
    /\ r = 0
    /\ op = None
    /\ pre = None
    /\ organization = Org(FALSE, 0, {})
    /\ query_text = <<>>
    /\ input_stream = <<>>
    /\ record = ContactJson(0, <<>>, <<>>, <<>>)
    /\ out = Return(FALSE)
    /\ NoMigration

OptNext ==
    \/ VisitCondition
    \/ VisitCombinationAnd
    \/ VisitCombinationOr
    \/ ContactQuery
    \/ Simplify
    \/ SplitByProp
    \/ Optimized

SpecOpt == OptInit /\ [][OptNext]_vars

(***************************************************************************)
(* Calls of the optimizer on q after r = q.optimized(), their results      *)
(* dropped, as long as the heap has fewer than MaxNodes nodes.             *)
(***************************************************************************)
MaxNodes == 14

\* a call of an optimizer method on q.root, after r = q.optimized()
Again(name, res) ==
    /\ q # 0
    /\ op \in {"optimized", "optimized again", "simplify again", "split_by_prop again"}
    /\ Len(heap) < MaxNodes
    /\ heap' = res.heap
    /\ op' = name
    /\ UNCHANGED <<stack, q, r, pre, api, migration>>

\* q.optimized()
OptimizedAgain == Again("optimized again", optimized(heap, q))

\* q.root.simplify()
SimplifyAgain == Again("simplify again", simplify(heap, q))

\* q.root.split_by_prop()
SplitByPropAgain == Again("split_by_prop again", split_by_prop(heap, q))

ShareNext ==
    \/ VisitCondition
    \/ VisitCombinationAnd
    \/ VisitCombinationOr
    \/ ContactQuery
    \/ Optimized
    \/ OptimizedAgain
    \/ SimplifyAgain
    \/ SplitByPropAgain

SpecShare == OptInit /\ [][ShareNext]_vars

(***************************************************************************)
(* Trees of up to MaxTreeLeaves conditions: any sequence of simplify(),    *)
(* split_by_prop() and optimized() on the query or on the node the last    *)
(* call returned, and SinglePropCombination(prop, op, *children) on nodes  *)
(* of the heap, as long as the heap has fewer than MaxTreeNodes nodes.     *)
(***************************************************************************)
MaxTreeLeaves == 3

MaxTreeNodes == 7

AssertionError == "AssertionError"

VisitTreeCondition ==
    /\ q = 0
    /\ Leaves(heap) < MaxTreeLeaves
    /\ \E ctx \in LeafContexts :
          /\ heap' = Append(heap, visitCondition(ctx))
          /\ stack' = Append(stack, Len(heap) + 1)
    /\ UNCHANGED <<q, r, op, pre, api, migration>>

\* the nodes a caller holds: the root of the query and the node the last call
\* returned
Held == {q} \cup (IF r = 0 THEN {} ELSE {r})

\* a call of an optimizer method on a node that is held
TreeCall(name, self, res) ==
    /\ q # 0
    /\ self \in Held
    /\ Len(heap) < MaxTreeNodes
    /\ Call(name, self, res)

SimplifyTree == \E self \in Held : TreeCall("simplify", self, simplify(heap, self))

SplitByPropTree == \E self \in Held : TreeCall("split_by_prop", self, split_by_prop(heap, self))

OptimizedTree == \E self \in Held : TreeCall("optimized", self, optimized(heap, self))

\* SinglePropCombination(prop, op, left, right) on nodes of the query that was
\* built: __init__ asserts that every child is a Condition on prop
NewSinglePropCombination ==
    /\ q # 0
    /\ op = None
    /\ Len(heap) < MaxTreeNodes
    /\ \E prop \in {"age", "gender"}, o \in {AND, OR}, left \in 1..Len(heap), right \in 1..Len(heap) :
          /\ pre' = [prop |-> prop, children |-> <<Tree(heap, left), Tree(heap, right)>>]
          /\ IF SinglePropAssertion(heap, prop, <<left, right>>)
             THEN /\ heap' = Append(heap, SinglePropCombination(prop, o, <<left, right>>))
                  /\ r' = Len(heap) + 1
                  /\ out' = Return(TRUE)
             ELSE /\ out' = Raise(AssertionError)
                  /\ UNCHANGED <<heap, r>>
    /\ op' = "SinglePropCombination"
    /\ UNCHANGED <<stack, q, organization, migration, query_text, input_stream, record>>

TreeNext ==
    \/ VisitTreeCondition
    \/ VisitCombinationAnd
    \/ VisitCombinationOr
    \/ ContactQuery
    \/ SimplifyTree
    \/ SplitByPropTree
    \/ OptimizedTree
    \/ NewSinglePropCombination

SpecTree == OptInit /\ [][TreeNext]_vars

(***************************************************************************)
(* The API: parse_query on a text, then one of the operations that resolve *)
(* the properties of the query against the org.                            *)
(***************************************************************************)
\* the fields of the orgs: age and dob, and for an org with more fields, active
\* fields with the keys tel, id and name and a field bogus that was deleted
BasicFields(timezone) ==
    {ContactField("age", 1, TYPE_NUMBER, TRUE, timezone),
     ContactField("dob", 2, TYPE_DATETIME, TRUE, timezone)}

MoreFields(timezone) ==
    BasicFields(timezone) \cup
    {ContactField("tel", 3, TYPE_TEXT, TRUE, timezone),
     ContactField("id", 4, TYPE_TEXT, TRUE, timezone),
     ContactField("name", 5, TYPE_TEXT, TRUE, timezone),
     ContactField("bogus", 6, TYPE_TEXT, FALSE, timezone)}

\* UTC and UTC+2, as the offset of local time in seconds
Timezones == {0, 7200}

Orgs ==
    UNION {{Org(is_anon, timezone, fields) :
                is_anon \in BOOLEAN, fields \in {BasicFields(timezone), MoreFields(timezone)}} :
            timezone \in Timezones}

\* the texts of the queries
PhoneText ==
    <<"+", "1", " ", "(", "5", "5", "5", ")", " ", "1", "2", "3", "-", "4", "5", "6", "7">>

Literals == {<<"\"", "\"">>, <<"1">>, <<"1", "2", "3">>, <<"b", "a", "m">>, Date_2020_01_15}

PropertyTokens == TokenNames \ COMPARATOR

ConditionText(name, comparator, literal) ==
    Spell(name) \o <<" ">> \o Spell(comparator) \o <<" ">> \o literal

Texts ==
    {ConditionText(name, comparator, literal) :
        name \in PropertyTokens, comparator \in COMPARATOR, literal \in Literals}
    \cup {PhoneText, <<"1", "2", "3">>, <<"b", "a", "m">>, <<>>, <<"(", "b", "a", "m">>,
          <<"1", "-", "2">>}

\* the contact records: without fields and URNs, with an age, with an age entry
\* that holds no number, with a date of birth at the instants around the
\* start and the end of 2020-01-15 in the timezones, and with an entry for the
\* date of birth that holds no datetime
DateValue(t) == FieldValue(Date_2020_01_15, <<>>, <<t>>, <<>>)

Instants ==
    {day * SecondsPerDay - timezone - before :
        day \in {1, 2}, timezone \in Timezones, before \in {0, 1}}

Contacts ==
    {ContactJson(1, <<"B", "a", "m">>, <<>>, <<>>),
     ContactJson(2, <<>>, 1 :> NumberValue(<<"1", "2", "3">>) @@ 4 :> TextValue(<<"B", "A", "M">>),
                 <<Urn("twitter", <<"b", "a", "m">>), Urn("tel", <<"+", "1", "2", "3", "4">>)>>),
     ContactJson(3, <<"x">>, 1 :> TextValue(<<"b", "a", "m">>), <<Urn("tel", <<"1", "2", "3">>)>>)}
    \cup {ContactJson(4, <<"x">>, 2 :> DateValue(t), <<>>) : t \in Instants}
    \cup {ContactJson(5, <<"x">>, 2 :> TextValue(<<"b", "a", "m">>), <<>>)}

\* parsed = parse_query(text, optimize, as_anon=org.is_anon)
ParseQuery ==
    /\ op = None
    /\ \E t \in Texts, optimize \in BOOLEAN :
         \E parsed \in parse_query(heap, t, optimize, organization.is_anon) :
            /\ query_text' = t
            /\ input_stream' = parsed.stream
            /\ heap' = parsed.heap
            /\ q' = parsed.ret
            /\ out' = IF parsed.exc = None THEN Return(TRUE) ELSE Raise(parsed.exc)
    /\ op' = "parse_query"
    /\ UNCHANGED <<stack, r, pre, organization, migration, record>>

\* a call of an operation of the API on the parsed query
ApiCall(name, outcomes) ==
    /\ q # 0
    /\ op = "parse_query"
    /\ op' = name
    /\ \E o \in outcomes : out' = o
    /\ UNCHANGED <<heap, stack, q, r, pre, organization, migration, query_text, input_stream>>

\* parsed.as_query(org)
AsQuery ==
    /\ ApiCall("as_query", ContactQuery_as_query(Tree(heap, q), organization))
    /\ UNCHANGED record

\* parsed.as_elasticsearch(org)
AsElasticsearch ==
    /\ ApiCall("as_elasticsearch", ContactQuery_as_elasticsearch(Tree(heap, q), organization))
    /\ UNCHANGED record

\* parsed.evaluate(org, contact_json)
Evaluate ==
    \E contact_json \in Contacts :
        /\ ApiCall("evaluate", ContactQuery_evaluate(Tree(heap, q), organization, contact_json))
        /\ record' = contact_json

\* extract_fields(org, text), after its parse_query
ExtractFields ==
    /\ ApiCall("extract_fields", extract_fields(Tree(heap, q), organization))
    /\ UNCHANGED record

\* parsed.get_prop_map(org)
GetPropMap ==
    /\ q # 0
    /\ op \in {None, "parse_query"}
    /\ op' = "get_prop_map"
    /\ \E o \in get_prop_map(Tree(heap, q), organization) : out' = o
    /\ UNCHANGED <<heap, stack, q, r, pre, organization, migration, query_text, input_stream, record>>

ApiInit ==
    /\ heap = <<>>
    /\ stack = <<>>
    /\ q = 0
    /\ r = 0
    /\ op = None
    /\ pre = None
    /\ organization \in Orgs
    /\ query_text = <<>>
    /\ input_stream = <<>>
    /\ record = ContactJson(0, <<>>, <<>>, <<>>)
    /\ out = Return(FALSE)
    /\ NoMigration

ApiNext ==
    \/ ParseQuery
    \/ AsQuery
    \/ AsElasticsearch
    \/ Evaluate
    \/ ExtractFields
    \/ GetPropMap

SpecApi == ApiInit /\ [][ApiNext]_vars

(***************************************************************************)
(* Property resolution of the queries of up to MaxProps conditions, built  *)
(* by the visitor from conditions on each property name.                   *)
(***************************************************************************)
PropertyContexts == {ConditionContext(name, "=", <<"1">>, FALSE) : name \in PropertyTokens}

VisitProperty ==
    /\ q = 0
    /\ Leaves(heap) < MaxProps
    /\ \E ctx \in PropertyContexts :
          /\ heap' = Append(heap, visitCondition(ctx))
          /\ stack' = Append(stack, Len(heap) + 1)
    /\ UNCHANGED <<q, r, op, pre, api, migration>>

ResolveNext ==
    \/ VisitProperty
    \/ VisitCombinationAnd
    \/ VisitCombinationOr
    \/ ContactQuery
    \/ GetPropMap

SpecResolve == ApiInit /\ [][ResolveNext]_vars

(***************************************************************************)
(* Queries of up to MaxFoldLeaves conditions on the fields of an org,      *)
(* parsed with or without optimization and compiled by as_query.           *)
(***************************************************************************)
MaxFoldLeaves == 3

\* an org with a number field, a datetime field and a text field
FoldOrg ==
    Org(FALSE, 0, BasicFields(0) \cup {ContactField("nick", 7, TYPE_TEXT, TRUE, 0)})

\* a value of 33 characters
Text_33 == [i \in 1..STRING_VALUE_COMPARISON_LIMIT |-> "a"] \o <<"x">>

FoldContexts ==
    {ConditionContext("nick", "=", <<"b", "a", "m">>, FALSE),
     ConditionContext("nick", "=", Text_33, FALSE),
     ConditionContext("nick", "=", <<"\"", "\"">>, TRUE),
     ConditionContext("age", "=", <<"1">>, FALSE),
     ConditionContext("age", ">", <<"1">>, FALSE),
     ConditionContext("dob", "=", Date_2020_01_15, FALSE)}

\* a value of 33 characters that differs from Text_33 in its last character
\* and in case
Text_33_W == [i \in 1..STRING_VALUE_COMPARISON_LIMIT |-> "A"] \o <<"w">>

\* records with a text for the field nick, and one without
FoldContacts ==
    {ContactJson(1, <<>>, 7 :> TextValue(<<"B", "a", "m">>), <<>>),
     ContactJson(2, <<>>, 7 :> TextValue(Text_33), <<>>),
     ContactJson(3, <<>>, 7 :> TextValue(Text_33_W), <<>>),
     ContactJson(4, <<>>, 7 :> TextValue(<<>>), <<>>),
     ContactJson(5, <<>>, 1 :> NumberValue(<<"1">>), <<>>)}

VisitFieldCondition ==
    /\ q = 0
    /\ Leaves(heap) < MaxFoldLeaves
    /\ \E ctx \in FoldContexts :
          /\ heap' = Append(heap, visitCondition(ctx))
          /\ stack' = Append(stack, Len(heap) + 1)
    /\ UNCHANGED <<q, r, op, pre, api, migration>>

\* the end of parse_query: query = ContactQuery(visitor.visit(tree));
\* return query.optimized() if optimize else query
ParseTree ==
    /\ q = 0
    /\ Len(stack) = 1
    /\ \E optimize \in BOOLEAN :
          LET result == IF optimize THEN optimized(heap, stack[1])
                        ELSE [heap |-> heap, ret |-> stack[1]]
          IN /\ heap' = result.heap
             /\ q' = result.ret
    /\ stack' = <<>>
    /\ op' = "parse_query"
    /\ out' = Return(TRUE)
    /\ UNCHANGED <<r, pre, organization, migration, query_text, input_stream, record>>

\* parsed.evaluate(org, contact_json) on the records with the field nick
EvaluateField ==
    \E contact_json \in FoldContacts :
        /\ ApiCall("evaluate", ContactQuery_evaluate(Tree(heap, q), organization, contact_json))
        /\ record' = contact_json

FoldInit ==
    /\ heap = <<>>
    /\ stack = <<>>
    /\ q = 0
    /\ r = 0
    /\ op = None
    /\ pre = None
    /\ organization = FoldOrg
    /\ query_text = <<>>
    /\ input_stream = <<>>
    /\ record = ContactJson(0, <<>>, <<>>, <<>>)
    /\ out = Return(FALSE)
    /\ NoMigration

FoldNext ==
    \/ VisitFieldCondition
    \/ VisitCombinationAnd
    \/ VisitCombinationOr
    \/ ParseTree
    \/ AsQuery

SpecFold == FoldInit /\ [][FoldNext]_vars

\* the same queries, compiled by as_query or evaluated on a record
FoldEvaluateNext ==
    \/ VisitFieldCondition
    \/ VisitCombinationAnd
    \/ VisitCombinationOr
    \/ ParseTree
    \/ AsQuery
    \/ EvaluateField

SpecFoldEvaluate == FoldInit /\ [][FoldEvaluateNext]_vars

(***************************************************************************)
(* Queries of up to MaxGroupLeaves conditions on attributes, schemes and   *)
(* fields, asked whether they can define a dynamic group.                  *)
(***************************************************************************)
MaxGroupLeaves == 3

GroupContexts ==
    {ConditionContext("NAME", "~", <<"b", "a", "m">>, FALSE),
     ConditionContext("id", "=", <<"1">>, FALSE),
     ConditionContext("age", "=", <<"1">>, FALSE),
     ConditionContext("tel", "=", <<"\"", "\"">>, TRUE)}

VisitGroupCondition ==
    /\ q = 0
    /\ Leaves(heap) < MaxGroupLeaves
    /\ \E ctx \in GroupContexts :
          /\ heap' = Append(heap, visitCondition(ctx))
          /\ stack' = Append(stack, Len(heap) + 1)
    /\ UNCHANGED <<q, r, op, pre, api, migration>>

\* parsed.can_be_dynamic_group()
CanBeDynamicGroup ==
    /\ ApiCall("can_be_dynamic_group", {Return(can_be_dynamic_group(Tree(heap, q)))})
    /\ UNCHANGED record

GroupNext ==
    \/ VisitGroupCondition
    \/ VisitCombinationAnd
    \/ VisitCombinationOr
    \/ ParseTree
    \/ CanBeDynamicGroup

SpecGroup == FoldInit /\ [][GroupNext]_vars

(***************************************************************************)
(* Queries of up to MaxSameLeaves conditions on a number field and a text  *)
(* field, parsed with optimize=True and compiled for the relational        *)
(* backend; pre keeps the tree the visitor built.                          *)
(***************************************************************************)
MaxSameLeaves == 3

SameOrg ==
    Org(FALSE, 0, BasicFields(0) \cup {ContactField("state", 8, TYPE_TEXT, TRUE, 0)})

SameContexts ==
    {ConditionContext("age", "!=", <<"\"", "\"">>, TRUE),
     ConditionContext("age", ">", <<"5">>, FALSE),
     ConditionContext("age", "=", <<"5">>, FALSE),
     ConditionContext("state", "=", <<"\"", "\"">>, TRUE),
     ConditionContext("state", "=", <<"x">>, FALSE),
     ConditionContext("state", "!=", <<"\"", "\"">>, TRUE)}

\* records with and without a number for age and a text for state
SameContacts ==
    {ContactJson(1, <<>>, <<>>, <<>>),
     ContactJson(2, <<>>, 1 :> NumberValue(<<"7">>), <<>>),
     ContactJson(3, <<>>, 1 :> NumberValue(<<"5">>), <<>>),
     ContactJson(4, <<>>, 8 :> TextValue(<<"x">>), <<>>),
     ContactJson(5, <<>>, 8 :> TextValue(<<"w">>), <<>>),
     ContactJson(6, <<>>, 8 :> TextValue(<<>>), <<>>),
     ContactJson(7, <<>>, (1 :> NumberValue(<<"3">>)) @@ (8 :> TextValue(<<"x">>)), <<>>)}

VisitSameCondition ==
    /\ q = 0
    /\ Leaves(heap) < MaxSameLeaves
    /\ \E ctx \in SameContexts :
          /\ heap' = Append(heap, visitCondition(ctx))
          /\ stack' = Append(stack, Len(heap) + 1)
    /\ UNCHANGED <<q, r, op, pre, api, migration>>

\* parse_query(text, optimize=True), from the tree the visitor returned
ParseOptimized ==
    /\ q = 0
    /\ Len(stack) = 1
    /\ pre' = Tree(heap, stack[1])
    /\ LET result == optimized(heap, stack[1])
       IN /\ heap' = result.heap
          /\ q' = result.ret
    /\ stack' = <<>>
    /\ op' = "parse_query"
    /\ out' = Return(TRUE)
    /\ UNCHANGED <<r, organization, migration, query_text, input_stream, record>>

SameInit ==
    /\ heap = <<>>
    /\ stack = <<>>
    /\ q = 0
    /\ r = 0
    /\ op = None
    /\ pre = None
    /\ organization = SameOrg
    /\ query_text = <<>>
    /\ input_stream = <<>>
    /\ record = ContactJson(0, <<>>, <<>>, <<>>)
    /\ out = Return(FALSE)
    /\ NoMigration

SameNext ==
    \/ VisitSameCondition
    \/ VisitCombinationAnd
    \/ VisitCombinationOr
    \/ ParseOptimized
    \/ AsQuery

SpecSame == SameInit /\ [][SameNext]_vars

(***************************************************************************)
(* Migration 0081: update_nexmo_channels_config(apps, schema_editor), for  *)
(* up to MaxChannels channels of two orgs.  The statements of the loop     *)
(* body up to channel.save(), the call of the Nexmo API and the exception  *)
(* handler are one step each.                                              *)
(***************************************************************************)
MaxChannels == 3

\* NEXMO_APP_ID, NEXMO_APP_PRIVATE_KEY, NEXMO_KEY, NEXMO_SECRET: the keys of the
\* org config that the migration reads
NexmoKeys == {"NEXMO_APP_ID", "NEXMO_APP_PRIVATE_KEY", "NEXMO_KEY", "NEXMO_SECRET"}

\* org_config[key] of an org: a value of its own
org_config(org_id, key) == <<org_id, key>>

\* a channel config without the Nexmo entries
NoConfig ==
    [nexmo_app_id |-> <<>>, nexmo_app_private_key |-> <<>>,
     nexmo_api_key |-> <<>>, nexmo_api_secret |-> <<>>]

\* config = {'nexmo_app_id': app_id, 'nexmo_app_private_key': ..., ...}
NexmoConfig(org_id) ==
    [nexmo_app_id |-> org_config(org_id, "NEXMO_APP_ID"),
     nexmo_app_private_key |-> org_config(org_id, "NEXMO_APP_PRIVATE_KEY"),
     nexmo_api_key |-> org_config(org_id, "NEXMO_KEY"),
     nexmo_api_secret |-> org_config(org_id, "NEXMO_SECRET")]

\* a row of the channels table
Channel(channel_type, is_active, org_id) ==
    [channel_type |-> channel_type, is_active |-> is_active, org_id |-> org_id,
     config |-> NoConfig, tps |-> 0]

\* org 1 has connected a Nexmo account with an application, org 2 has no
\* private key in its config
Orgs_0081 == (1 :> NexmoKeys) @@ (2 :> (NexmoKeys \ {"NEXMO_APP_PRIVATE_KEY"}))

Channels_0081 ==
    {Channel(channel_type, is_active, org_id) :
        channel_type \in {"NX", "TW"}, is_active \in BOOLEAN, org_id \in DOMAIN Orgs_0081}

\* Channel.objects.filter(channel_type='NX', is_active=True)
ActiveNexmo(objects) ==
    {id \in DOMAIN objects : objects[id].channel_type = "NX" /\ objects[id].is_active}

\* the migration framework calls update_nexmo_channels_config: the test of
\* settings.IS_PROD and the queryset of the loop
RunPython ==
    /\ pc = "idle"
    /\ IF IS_PROD
       THEN /\ nexmo_channels' = ActiveNexmo(Channel_objects)
            /\ pc' = "for"
       ELSE /\ pc' = "return"
            /\ UNCHANGED nexmo_channels
    /\ UNCHANGED <<heap, stack, q, r, op, pre, api>>
    /\ UNCHANGED <<IS_PROD, PY2, Channel_objects, Org_objects, channel, nexmo_numbers>>

\* for channel in nexmo_channels: the next channel, in the order of the
\* queryset, which the code does not fix; the function returns after the last
ForChannel ==
    /\ pc = "for"
    /\ IF nexmo_channels = {}
       THEN /\ pc' = "return"
            /\ channel' = 0
            /\ UNCHANGED nexmo_channels
       ELSE \E id \in nexmo_channels :
               /\ channel' = id
               /\ nexmo_channels' = nexmo_channels \ {id}
               /\ pc' = "try"
    /\ UNCHANGED <<heap, stack, q, r, op, pre, api>>
    /\ UNCHANGED <<IS_PROD, PY2, Channel_objects, Org_objects, nexmo_numbers>>

\* the try block up to channel.save(update_fields=['config', 'tps']): a key
\* that the org config lacks raises KeyError before anything is assigned
SaveConfig ==
    /\ pc = "try"
    /\ LET org_id == Channel_objects[channel].org_id
       IN IF NexmoKeys \subseteq Org_objects[org_id]
          THEN /\ Channel_objects' =
                     [Channel_objects EXCEPT ![channel].config = NexmoConfig(org_id),
                                             ![channel].tps = 1]
               /\ pc' = "update_nexmo_number"
          ELSE /\ pc' = "except"
               /\ UNCHANGED Channel_objects
    /\ UNCHANGED <<heap, stack, q, r, op, pre, api>>
    /\ UNCHANGED <<IS_PROD, PY2, Org_objects, nexmo_channels, channel, nexmo_numbers>>

\* client.update_nexmo_number(country, address, receive_url, app_id): the call
\* of the Nexmo API succeeds or raises
UpdateNexmoNumber ==
    /\ pc = "update_nexmo_number"
    /\ \E ok \in BOOLEAN :
          /\ nexmo_numbers' = Append(nexmo_numbers, [channel |-> channel, ok |-> ok])
          /\ pc' = IF ok THEN "for" ELSE "except"
    /\ UNCHANGED <<heap, stack, q, r, op, pre, api>>
    /\ UNCHANGED <<IS_PROD, PY2, Channel_objects, Org_objects, nexmo_channels, channel>>

\* except Exception as e: traceback.print_exc(e).  The exception is passed as the
\* limit of the traceback; Python 2 compares it with the frame count and
\* prints, Python 3 raises TypeError for the comparison, out of the handler and
\* of the function
Except ==
    /\ pc = "except"
    /\ pc' = IF PY2 THEN "for" ELSE "TypeError"
    /\ UNCHANGED <<heap, stack, q, r, op, pre, api>>
    /\ UNCHANGED <<IS_PROD, PY2, Channel_objects, Org_objects, nexmo_channels, channel, nexmo_numbers>>

MigrationInit ==
    /\ heap = <<>>
    /\ stack = <<>>
    /\ q = 0
    /\ r = 0
    /\ op = None
    /\ pre = None
    /\ organization = Org(FALSE, 0, {})
    /\ query_text = <<>>
    /\ input_stream = <<>>
    /\ record = ContactJson(0, <<>>, <<>>, <<>>)
    /\ out = Return(FALSE)
    /\ IS_PROD \in BOOLEAN
    /\ PY2 \in BOOLEAN
    /\ Channel_objects \in [1..MaxChannels -> Channels_0081]
    /\ Org_objects = Orgs_0081
    /\ nexmo_channels = {}
    /\ channel = 0
    /\ pc = "idle"
    /\ nexmo_numbers = <<>>

MigrationNext ==
    \/ RunPython
    \/ ForChannel
    \/ SaveConfig
    \/ UpdateNexmoNumber
    \/ Except

SpecMigration == MigrationInit /\ [][MigrationNext]_vars

(***************************************************************************)
(* The optimizer's results, stated on tree values.                         *)
(***************************************************************************)
Cond_age_gt == Condition("age", ">", <<"1", "8">>)
Cond_age_lt == Condition("age", "<", <<"6", "5">>)
Cond_gender == Condition("gender", "=", <<"M">>)

BoolTree(o, children) == BoolCombination(o, children)

isCombination(t) == ~isCondition(t)

\* every same-operator child combination absorbed, whatever its siblings are
RECURSIVE AbsorbEach(_)
AbsorbEach(t) ==
    IF isCondition(t) THEN t
    ELSE LET cs == [i \in 1..Len(t.children) |-> AbsorbEach(t.children[i])]
         IN BoolCombination(t.op,
                Concat([i \in 1..Len(cs) |->
                    IF isCombination(cs[i]) /\ cs[i].op = t.op
                    THEN cs[i].children ELSE <<cs[i]>>]))

\* same-operator child combinations absorbed only below a parent none of whose
\* (simplified) children is a combination of the other operator
RECURSIVE AbsorbUnlessMixed(_)
AbsorbUnlessMixed(t) ==
    IF isCondition(t) THEN t
    ELSE LET cs == [i \in 1..Len(t.children) |-> AbsorbUnlessMixed(t.children[i])]
             mixed == \E i \in 1..Len(cs) : isCombination(cs[i]) /\ cs[i].op # t.op
         IN IF mixed THEN [t EXCEPT !.children = cs]
            ELSE BoolCombination(t.op,
                     Concat([i \in 1..Len(cs) |->
                         IF isCombination(cs[i]) THEN cs[i].children ELSE <<cs[i]>>]))

\* C1 as stated: simplify() absorbs every same-operator child combination into
\* its parent, for every parent of the tree, whatever the operators of the
\* child's siblings are.
C1_AbsorbsEachSameOpChild ==
    op = "simplify" => Tree(heap, r) = AbsorbEach(pre)

\* C1 amended: simplify() absorbs the children of the same-operator child
\* combinations of a parent, in order, when no (simplified) child of that parent
\* is a combination of the other operator; a parent with such a child is
\* returned itself with all its simplified children left nested, the
\* same-operator ones included.  OR(OR(a,b),c) becomes OR(a,b,c).
C1_AbsorbsUnlessMixed ==
    op = "simplify" =>
        /\ Tree(heap, r) = AbsorbUnlessMixed(pre)
        /\ pre = BoolTree(OR, <<BoolTree(OR, <<Cond_age_gt, Cond_age_lt>>), Cond_gender>>)
              => Tree(heap, r) = BoolTree(OR, <<Cond_age_gt, Cond_age_lt, Cond_gender>>)

\* simplify() was called on OR(OR(a,b), AND(c,d)) and left OR(a,b) nested
C1_Witness ==
    /\ op = "simplify"
    /\ pre = BoolTree(OR, <<BoolTree(OR, <<Cond_age_gt, Cond_age_lt>>),
                            BoolTree(AND, <<Cond_gender, Cond_age_gt>>)>>)
    /\ Tree(heap, r) = pre

\* the grouping of split_by_prop() on tree values
PropKey(t) == IF isCondition(t) THEN t.prop ELSE None

RECURSIVE Grouped(_)
Grouped(t) ==
    IF isCondition(t) THEN t
    ELSE LET cs == [i \in 1..Len(t.children) |-> Grouped(t.children[i])]
             group(i) == LET Same(c) == PropKey(c) = PropKey(cs[i])
                         IN SelectSeq(cs, Same)
             first(i) == \A j \in 1..(i - 1) : PropKey(cs[j]) # PropKey(cs[i])
             new == Concat([i \in 1..Len(cs) |->
                        IF ~first(i) THEN <<>>
                        ELSE IF PropKey(cs[i]) # None /\ Len(group(i)) > 1
                        THEN <<SinglePropCombination(PropKey(cs[i]), t.op, group(i))>>
                        ELSE group(i)])
         IN IF Len(new) = 1 THEN new[1] ELSE BoolCombination(t.op, new)

\* C3: split_by_prop() groups the children of a combination by property in
\* first-occurrence order; a group of more than one Condition becomes one
\* SinglePropCombination with the parent's operator and the group's children in
\* their order, other children stay as they are, and a single remaining child is
\* returned directly.  OR(age>18, gender=M, age<65) becomes
\* OR(SinglePropCombination(OR,[age>18,age<65]), gender=M).
C3_SplitByPropGroups ==
    op = "split_by_prop" =>
        /\ Tree(heap, r) = Grouped(pre)
        /\ pre = BoolTree(OR, <<Cond_age_gt, Cond_gender, Cond_age_lt>>)
              => Tree(heap, r) =
                    BoolTree(OR, <<SinglePropCombination("age", OR, <<Cond_age_gt, Cond_age_lt>>),
                                   Cond_gender>>)

\* split_by_prop() was called on OR(age>18, gender=M, age<65)
C3_Witness ==
    /\ op = "split_by_prop"
    /\ pre = BoolTree(OR, <<Cond_age_gt, Cond_gender, Cond_age_lt>>)
    /\ Tree(heap, r).children[1].kind = "SinglePropCombination"

\* C4: optimized() leaves the query it is called on unchanged: the tree of q
\* after the call is the tree of q before it.
C4_OriginalUnchanged ==
    op = "optimized" => Tree(heap, q) = pre

(***************************************************************************)
(* Property maps and contact records over the fields of the conditions     *)
(* above: age as a number, text or datetime field, gender as a text or     *)
(* number field; contacts with and without a value of each.                *)
(***************************************************************************)
OptPropMap(age_type, gender_type) ==
    [age |-> Entry(PROP_FIELD, ContactField("age", 1, age_type, TRUE, 0)),
     gender |-> Entry(PROP_FIELD, ContactField("gender", 2, gender_type, TRUE, 0))]

OptPropMaps ==
    {OptPropMap(TYPE_NUMBER, TYPE_TEXT), OptPropMap(TYPE_TEXT, TYPE_TEXT),
     OptPropMap(TYPE_NUMBER, TYPE_NUMBER), OptPropMap(TYPE_DATETIME, TYPE_TEXT)}

OptAgeValues == {NumberValue(<<"1", "0">>), NumberValue(<<"3", "0">>), NumberValue(<<"7", "0">>)}

OptGenderValues == {TextValue(<<"m">>), TextValue(<<"x">>)}

OptContacts ==
    {ContactJson(1, <<"A", "x">>, <<>>, <<>>)} \cup
    {ContactJson(1, <<"A", "x">>, <<a, g>>, <<>>) : a \in OptAgeValues, g \in OptGenderValues}

\* C2: simplify() does not change what evaluate() gives: for every property map
\* and every contact record, evaluate() on the tree simplify() returned gives the
\* boolean, or raises the exception, that evaluate() on the tree before gave
\* (compared for the queries of at most MaxEvalLeaves conditions).
C2_SimplifyKeepsEvaluation ==
    op = "simplify" /\ Len(get_prop_names(pre)) <= MaxEvalLeaves =>
        LET simplified == Tree(heap, r)
        IN \A prop_map \in OptPropMaps, contact_json \in OptContacts :
               evaluate(simplified, contact_json, prop_map) = evaluate(pre, contact_json, prop_map)

\* simplify() turned AND(AND(age>18, age<65), gender=M) into a three-child AND that
\* is true of one contact, false of another, and raises under another property map
C2_Witness ==
    /\ op = "simplify"
    /\ pre = BoolTree(AND, <<BoolTree(AND, <<Cond_age_gt, Cond_age_lt>>), Cond_gender>>)
    /\ Len(Tree(heap, r).children) = 3
    /\ \E prop_map \in OptPropMaps, contact_json \in OptContacts :
            evaluate(Tree(heap, r), contact_json, prop_map) = Return(TRUE)
    /\ \E prop_map \in OptPropMaps, contact_json \in OptContacts :
            evaluate(Tree(heap, r), contact_json, prop_map) = Return(FALSE)
    /\ \E prop_map \in OptPropMaps, contact_json \in OptContacts :
            evaluate(Tree(heap, r), contact_json, prop_map) = Raise(SearchException)
    /\ \E prop_map \in OptPropMaps, contact_json \in OptContacts :
            evaluate(Tree(heap, r), contact_json, prop_map) = Raise(ValueError)

(***************************************************************************)
(* The phone number heuristic of parse_query.                              *)
(***************************************************************************)
Text_plus_15551234567 == <<"+", "1", "5", "5", "5", "1", "2", "3", "4", "5", "6", "7">>

Text_15551234567 == <<"1", "5", "5", "5", "1", "2", "3", "4", "5", "6", "7">>

\* parse_query was called with the text +1 (555) 123-4567 for an org that is not
\* anonymized
PhoneParsed == op # None /\ query_text = PhoneText /\ ~organization.is_anon

\* C5 as stated: for an org that is not anonymized the text "+1 (555) 123-4567"
\* is cleaned to "+15551234567" before tokenizing, and parses to the single
\* condition tel ~ "+15551234567".
C5_PhoneCleanedKeepsPlus ==
    PhoneParsed =>
        /\ input_stream = Text_plus_15551234567
        /\ q # 0
        /\ Tree(heap, q) = Condition("tel", "~", Text_plus_15551234567)

\* C5, amended: for an org that is not anonymized the text "+1 (555) 123-4567" is
\* cleaned to "15551234567" before tokenizing (the plus sign is removed with the
\* spaces, the hyphen and the parentheses), and parses to the single condition
\* tel ~ "15551234567".
C5_PhoneCleanedToDigits ==
    PhoneParsed =>
        /\ input_stream = Text_15551234567
        /\ q # 0
        /\ Tree(heap, q) = Condition("tel", "~", Text_15551234567)

C5_Witness ==
    /\ op = "parse_query"
    /\ PhoneParsed
    /\ q # 0
    /\ heap[q].prop = "tel"

(***************************************************************************)
(* Anonymized orgs and the URN schemes.                                    *)
(***************************************************************************)
\* the parsed query is one condition on a URN scheme and the org is anonymized
AnonSchemeCondition ==
    /\ q # 0
    /\ organization.is_anon
    /\ isCondition(heap[q])
    /\ heap[q].prop \in {"tel", "twitter"}

\* C6: for an anonymized org a Condition or IsSetCondition on a URN scheme (tel,
\* twitter) matches no contact in any backend: whenever as_query() or
\* as_elasticsearch() returns a predicate it selects no contact, and whenever
\* evaluate() returns it returns false, whatever URNs the record holds.
C6_AnonSchemeMatchesNothing ==
    AnonSchemeCondition /\ out.exc = None =>
        /\ op = "as_query" => \A contact_json \in Contacts : ~Selects(out.val, contact_json)
        /\ op = "as_elasticsearch" =>
                \A contact_json \in Contacts : ~ES_Selects(out.val, contact_json)
        /\ op = "evaluate" => out.val = FALSE

(***************************************************************************)
(* Property resolution.                                                    *)
(***************************************************************************)
\* the distinct property names of the query
QueryProps ==
    LET names == get_prop_names(Tree(heap, q))
    IN {names[i] : i \in 1..Len(names)}

\* the active fields of the org with key p
ActiveFields(p) == {f \in organization.fields : f.is_active /\ f.key = p}

\* the kind the rules give property name p, None if they give none
KindOf(p) ==
    CASE p \in {"tel", "twitter"} -> PROP_SCHEME
      [] p = "name" \/ (p = "id" /\ organization.is_anon) -> PROP_ATTRIBUTE
      [] ActiveFields(p) # {} -> PROP_FIELD
      [] OTHER -> None

\* C7: the map get_prop_map returns has exactly the distinct property names of the
\* query as keys and gives each one kind: Scheme to tel and twitter, also when an
\* active field has that key; else Attribute to name, and to id when the org is
\* anonymized; else Field, with the active field of the org that has the name as
\* key.
C7_ResolutionOrder ==
    op = "get_prop_map" /\ out.exc = None =>
        /\ DOMAIN out.val = QueryProps
        /\ \A p \in QueryProps :
              /\ out.val[p].type = KindOf(p)
              /\ KindOf(p) = PROP_FIELD => out.val[p].obj \in ActiveFields(p)
              /\ KindOf(p) # PROP_FIELD => out.val[p].obj = Named(p)

\* a map of two names, one a scheme for which the org has an active field
C7_Witness ==
    /\ op = "get_prop_map"
    /\ out.exc = None
    /\ QueryProps = {"tel", "id"}
    /\ ActiveFields("tel") # {}
    /\ out.val["tel"].type = PROP_SCHEME
    /\ out.val["id"].type = PROP_FIELD

\* the property names of the query that are no searchable attribute, no
\* searchable scheme and not the key of an active field
Unrecognized == {p \in QueryProps : KindOf(p) = None}

Text_bogus_1 == <<"b", "o", "g", "u", "s", " ", "=", " ", "1">>

\* C8: an unrecognized property name is reported when the properties are
\* resolved, not when the text is parsed: parse_query returns a query unless the
\* front end cancels the parse, and as_query, as_elasticsearch, evaluate and
\* extract_fields on a query that has an unrecognized property name raise
\* SearchException "Unrecognized field: <name>" for one such name and return
\* nothing.
C8_UnrecognizedAtResolution ==
    /\ op = "parse_query" /\ ParseCancellation \notin FrontEnd(input_stream) =>
            out.exc = None /\ q # 0
    /\ op \in {"as_query", "as_elasticsearch", "evaluate", "extract_fields"}
       /\ Unrecognized # {} =>
            /\ out.exc = SearchException
            /\ out.msg \in Unrecognized
            /\ out.val = FALSE

C8_Witness ==
    /\ op = "as_elasticsearch"
    /\ query_text = Text_bogus_1
    /\ out = UnrecognizedField("bogus")

(***************************************************************************)
(* Conditions with an empty value.                                         *)
(***************************************************************************)
\* the literal of the parsed text is the empty string ""
EmptyLiteral ==
    /\ q # 0
    /\ Len(query_text) >= 2
    /\ SubSeq(query_text, Len(query_text) - 1, Len(query_text)) = <<"\"", "\"">>

\* whether a record has a value of a field's type for the field
FieldIsSet(field, contact_json) ==
    /\ field.id \in DOMAIN contact_json.fields
    /\ CASE field.value_type = TYPE_TEXT -> TRUE
         [] field.value_type = TYPE_NUMBER ->
                /\ contact_json.fields[field.id].number # <<>>
                /\ Decimal(contact_json.fields[field.id].number[1]) # <<>>
         [] field.value_type = TYPE_DATETIME -> contact_json.fields[field.id].datetime # <<>>

\* whether the property p is set for a contact: a field when the record has an
\* entry for it that holds a value of the field's type, a scheme when the record
\* has a URN of it, name when it is not empty, id always
IsSet(p, contact_json) ==
    CASE KindOf(p) = PROP_FIELD ->
            FieldIsSet(CHOOSE f \in ActiveFields(p) : TRUE, contact_json)
      [] KindOf(p) = PROP_SCHEME ->
            \E i \in 1..Len(contact_json.urns) : contact_json.urns[i].scheme = p
      [] p = "name" -> contact_json.name # <<>>
      [] OTHER -> TRUE

\* the backend's answer for the contact is that of the requirement
Exactly(answer, required) == answer = required

\* the backend's answer for the contact is yes only if the requirement is met
AtMost(answer, required) == answer => required

Text_age_set == <<"a", "g", "e", " ", "!", "=", " ", "\"", "\"">>

DobCondition ==
    /\ q # 0
    /\ heap[q].kind = "Condition"
    /\ heap[q].prop = "dob"
    /\ heap[q].value = Date_2020_01_15
    /\ heap[q].comparator \in {"=", ">", ">=", "<", "<="}

\* the UTC instants at which 2020-01-15 starts and ends in the org's timezone
DayStart == SecondsPerDay - organization.timezone

DayEnd == DayStart + SecondsPerDay

\* what the comparator asks of the contact's instant t
Holds(comparator, t) ==
    CASE comparator = "=" -> DayStart <= t /\ t < DayEnd
      [] comparator = ">" -> t >= DayEnd
      [] comparator = ">=" -> t >= DayStart
      [] comparator = "<" -> t < DayStart
      [] comparator = "<=" -> t < DayEnd

\* the instant of a record's date of birth: <<t>>, or <<>> if it has none
Dob(contact_json) ==
    IF 2 \in DOMAIN contact_json.fields THEN contact_json.fields[2].datetime ELSE <<>>

T_2020_01_16_000000 == 2 * SecondsPerDay

T_2020_01_15_235959 == 2 * SecondsPerDay - 1

\* C10: a comparison of a datetime field uses the UTC range [start, end) of the
\* queried local day, the same in the relational backend and in evaluate(): =
\* holds iff start <= t < end, > iff t >= end, >= iff t >= start, < iff t < start,
\* <= iff t < end, for the instant t of the contact (a contact without one is not
\* matched).  With timezone UTC, > "2020-01-15" matches 2020-01-16T00:00:00Z and
\* not 2020-01-15T23:59:59Z.
C10_DatetimeRange ==
    DobCondition =>
        LET Expected(contact_json) ==
                Dob(contact_json) # <<>> /\ Holds(heap[q].comparator, Dob(contact_json)[1])
        IN /\ op = "as_query" =>
                /\ out.exc = None
                /\ \A contact_json \in Contacts :
                      Selects(out.val, contact_json) = Expected(contact_json)
           /\ op = "evaluate" => out = Return(Expected(record))
           /\ op = "evaluate" /\ organization.timezone = 0 /\ heap[q].comparator = ">" =>
                /\ Dob(record) = <<T_2020_01_16_000000>> => out = Return(TRUE)
                /\ Dob(record) = <<T_2020_01_15_235959>> => out = Return(FALSE)

C10_Witness ==
    /\ op = "evaluate"
    /\ DobCondition
    /\ organization.timezone = 0
    /\ heap[q].comparator = ">"
    /\ Dob(record) = <<T_2020_01_16_000000>>
    /\ out = Return(TRUE)

(***************************************************************************)
(* Comparators that a property's type does not support.                    *)
(***************************************************************************)
\* the value type of the field the name p resolves to
FieldType(p) == (CHOOSE f \in ActiveFields(p) : TRUE).value_type

\* the comparators the comparator table does not allow for property p
IllegalComparators(p) ==
    CASE KindOf(p) = PROP_FIELD /\ FieldType(p) \in {TYPE_TEXT} \cup LocationTypes ->
            {">", ">=", "<", "<=", "~"}
      [] KindOf(p) = PROP_FIELD /\ FieldType(p) \in {TYPE_NUMBER, TYPE_DATETIME} -> {"~"}
      [] KindOf(p) \in {PROP_ATTRIBUTE, PROP_SCHEME} -> {">", ">=", "<", "<="}
      [] OTHER -> {}

\* the parsed query is a plain condition whose comparator is not allowed for
\* the kind and type its property resolves to
IllegalCondition ==
    /\ q # 0
    /\ heap[q].kind = "Condition"
    /\ heap[q].comparator \in IllegalComparators(heap[q].prop)

\* C11: a condition whose comparator is illegal for the type of its resolved
\* property (>, >=, <, <=, ~ on a text or location field, ~ on a number or
\* datetime field, >, >=, <, <= on an attribute or a scheme) raises
\* SearchException in as_query, in as_elasticsearch and in evaluate, for every
\* contact record: no backend returns a predicate or a boolean or raises an
\* exception of another kind.
C11_IllegalComparatorRaisesSearchException ==
    IllegalCondition /\ op \in {"as_query", "as_elasticsearch", "evaluate"} =>
        out.exc = SearchException

(***************************************************************************)
(* Attributes in the evaluator.                                            *)
(***************************************************************************)
\* the parsed query is a plain condition on the attribute name with = or ~
NameCondition ==
    /\ q # 0
    /\ heap[q].kind = "Condition"
    /\ heap[q].prop = "name"
    /\ heap[q].comparator \in {"=", "~"}

\* what the comparator table gives a condition on name: equality ignoring case
\* for =, containment ignoring case for ~
NameMatches(self, contact_json) ==
    IF self.comparator = "="
    THEN upper(contact_json.name) = upper(self.value)
    ELSE Contains(upper(self.value), upper(contact_json.name))

\* C12: evaluate() of a condition on the attribute name returns a boolean: true
\* iff the name of the record equals the value ignoring case for =, iff it
\* contains the value ignoring case for ~; so does evaluate_query on a bare
\* token, which parses to name ~ token.
C12_EvaluateNameAttribute ==
    NameCondition /\ op = "evaluate" => out = Return(NameMatches(heap[q], record))

\* the parsed query is id != "" or id = "" and the org is anonymized, so that
\* id resolves to the attribute
IdIsSetCondition ==
    /\ EmptyLiteral
    /\ organization.is_anon
    /\ heap[q].kind = "IsSetCondition"
    /\ heap[q].prop = "id"
    /\ heap[q].comparator \in {"!=", "="}

\* C13: an is-set or is-not-set check on the attribute id (id != "" or id = ""
\* for an anonymized org) is rejected with SearchException by as_query and by
\* as_elasticsearch.
C13_IdIsSetRejected ==
    IdIsSetCondition /\ op \in {"as_query", "as_elasticsearch"} =>
        out.exc = SearchException

(***************************************************************************)
(* SinglePropCombination in the relational backend.                        *)
(***************************************************************************)
\* the parsed query is a SinglePropCombination on a field, compiled by as_query
\* without an exception
FieldCombinationCompiled ==
    /\ q # 0
    /\ heap[q].kind = "SinglePropCombination"
    /\ KindOf(heap[q].prop) = PROP_FIELD
    /\ op = "as_query"
    /\ out.exc = None

\* the parameter sets a filter on Value rows combines, left to right
RECURSIVE ParamSets(_)
ParamSets(where) ==
    IF where.w = "params" THEN <<where>> ELSE ParamSets(where.a) \o ParamSets(where.b)

\* the lookups of a parameter set that are membership tests (__in)
MembershipTests(params) ==
    {i \in 1..Len(params.lookups) : params.lookups[i].lookup = "in"}

\* what one value of a membership test on a field is for the value of a child
MemberOf(field, value) ==
    IF field.value_type = TYPE_TEXT THEN index_key(field, value) ELSE Decimal(value)[1]

\* C14: as_query of a SinglePropCombination on a field is one membership test
\* on the list of the values of all children iff its operator is OR, the
\* comparator of every child is = and the field is not a datetime field; with
\* AND, with a child whose comparator is not =, or on a datetime field it is the
\* combination, with the operator, of one parameter set per child.
C14_MembershipFolding ==
    FieldCombinationCompiled =>
        LET self == Tree(heap, q)
            field == CHOOSE f \in ActiveFields(self.prop) : TRUE
            n == Len(self.children)
            folds == /\ self.op = OR
                     /\ \A i \in 1..n : self.children[i].comparator = "="
                     /\ field.value_type # TYPE_DATETIME
            where == out.val.where
        IN /\ out.val.q = "values"
           /\ folds <=> where.w = "params"
           /\ folds =>
                /\ Cardinality(MembershipTests(where)) = 1
                /\ \A k \in MembershipTests(where) :
                      where.lookups[k].v =
                          [i \in 1..n |-> MemberOf(field, self.children[i].value)]
           /\ ~folds =>
                /\ where.w = (IF self.op = AND THEN "and" ELSE "or")
                /\ Len(ParamSets(where)) = n
                /\ \A i \in 1..n :
                      /\ MembershipTests(ParamSets(where)[i]) = {}
                      /\ Return(ParamSets(where)[i]) =
                            build_value_query_params(self.children[i], field)

\* nick = bam OR nick = "" OR nick = <33 characters> folded to one test on three
\* values
C14_Witness ==
    /\ FieldCombinationCompiled
    /\ heap[q].op = OR
    /\ heap[q].prop = "nick"
    /\ Len(heap[q].children) = 3
    /\ out.val.where.w = "params"
    /\ Len(out.val.where.lookups[1].v) = 3

\* a combination that is not folded: age = 1 AND age > 1
C14_WitnessNotFolded ==
    /\ FieldCombinationCompiled
    /\ heap[q].op = AND
    /\ heap[q].prop = "age"
    /\ out.val.where.w = "and"

(***************************************************************************)
(* The index key of a text field.                                          *)
(***************************************************************************)
\* '<field-id>|<VALUE>', VALUE the first 32 characters of the value, upper-cased
KeyOf(id, value) ==
    NatToStr(id) \o <<"|">> \o upper(SubSeq(value, 1, IF Len(value) < 32 THEN Len(value) ELSE 32))

\* the keys that the lookups on field_and_string_value of a Q object compare
\* against: those of the single-value lookups ("exact") or those of the list
\* lookups ("in")
KeysOfParams(params, lookup) ==
    UNION {IF lookup = "in"
           THEN {params.lookups[i].v[k] : k \in 1..Len(params.lookups[i].v)}
           ELSE {params.lookups[i].v} :
            i \in {k \in 1..Len(params.lookups) :
                     /\ params.lookups[k].column = "field_and_string_value"
                     /\ params.lookups[k].lookup = lookup}}

RECURSIVE KeysOf(_, _)
KeysOf(query, lookup) ==
    CASE query.q = "values" ->
            UNION {KeysOfParams(ParamSets(query.where)[k], lookup) :
                    k \in 1..Len(ParamSets(query.where))}
      [] query.q \in {"and", "or"} -> KeysOf(query.a, lookup) \cup KeysOf(query.b, lookup)
      [] query.q = "not" -> KeysOf(query.a, lookup)
      [] OTHER -> {}

SingleKeys(query) == KeysOf(query, "exact")

ListKeys(query) == KeysOf(query, "in")

\* the nodes of the parsed query
RECURSIVE Reachable(_, _)
Reachable(h, n) ==
    {n} \cup UNION {Reachable(h, h[n].children[i]) : i \in 1..Len(h[n].children)}

\* the conditions of the parsed query on a text field
TextConditions ==
    {n \in Reachable(heap, q) :
        /\ isCondition(heap[n])
        /\ KindOf(heap[n].prop) = PROP_FIELD
        /\ FieldType(heap[n].prop) = TYPE_TEXT}

Folded(n) ==
    /\ heap[n].op = OR
    /\ \A i \in 1..Len(heap[n].children) : heap[heap[n].children[i]].comparator = "="

\* the text conditions that are children of a SinglePropCombination, folded
\* or not
InCombination(folded) ==
    {n \in TextConditions : \E c \in Reachable(heap, q) :
        /\ heap[c].kind = "SinglePropCombination"
        /\ Folded(c) = folded
        /\ \E i \in 1..Len(heap[c].children) : heap[c].children[i] = n}

InFoldedList == InCombination(TRUE)

\* the text conditions compiled one by one: the plain conditions outside a
\* folded list, and the is-set checks that a SinglePropCombination compiles as
\* plain conditions
CompiledAlone ==
    {n \in TextConditions \ InFoldedList :
        heap[n].kind = "Condition" \/ n \in InCombination(FALSE)}

TextEquality ==
    /\ q # 0
    /\ heap[q].kind = "Condition"
    /\ heap[q].prop = "nick"
    /\ heap[q].comparator = "="

\* the text a record stores for the field nick: <<text>>, or <<>>
Nick(contact_json) ==
    IF 7 \in DOMAIN contact_json.fields THEN <<contact_json.fields[7].text>> ELSE <<>>

\* the stored text and the value are equal ignoring case
EqualIgnoringCase(contact_json, value) ==
    Nick(contact_json) # <<>> /\ upper(Nick(contact_json)[1]) = upper(value)

\* C16: equality on a text field means the same in the relational backend and
\* in evaluate(): for every stored text and every value, the predicate of
\* field = value selects the contact iff evaluate() returns true for the record,
\* namely iff the two strings are equal ignoring case.
C16_TextEqualitySameMeaning ==
    TextEquality =>
        /\ op = "as_query" =>
              /\ out.exc = None
              /\ \A contact_json \in FoldContacts :
                    Selects(out.val, contact_json) =
                        EqualIgnoringCase(contact_json, heap[q].value)
        /\ op = "evaluate" => out = Return(EqualIgnoringCase(record, heap[q].value))

(***************************************************************************)
(* Bare tokens.                                                            *)
(***************************************************************************)
\* the text was parsed as one bare token
BareToken ==
    /\ op = "parse_query"
    /\ out.exc = None
    /\ FrontEnd(input_stream) = {ImplicitConditionContext(input_stream)}

\* the token is an integer: <<n>>, else <<>>
TokenInteger == Decimal(input_stream)

\* the token has the characters of a phone number only
TokenIsPhone == \A i \in 1..Len(input_stream) : input_stream[i] \in TelChars

\* C17 as stated: a bare token resolves by the first rule that applies: (1) the
\* org is anonymized and the token parses as an integer: id = <integer as
\* text>; (2) otherwise the token matches the phone-number pattern: tel ~ token;
\* (3) otherwise: name ~ token.
C17_FirstRuleThatApplies ==
    BareToken =>
        heap[q] = IF organization.is_anon /\ TokenInteger # <<>>
                  THEN Condition("id", "=", IntToStr(TokenInteger[1]))
                  ELSE IF TokenIsPhone
                  THEN Condition("tel", "~", input_stream)
                  ELSE Condition("name", "~", input_stream)

\* C17: a bare token resolves, for an anonymized org, to id = <integer as text>
\* if it parses as an integer and to name ~ token otherwise, whether or not it
\* matches the phone-number pattern; for an org that is not anonymized, to
\* tel ~ token if it matches the phone-number pattern and to name ~ token
\* otherwise.
C17_BareTokenByAnonymization ==
    BareToken =>
        heap[q] = IF organization.is_anon
                  THEN IF TokenInteger # <<>>
                       THEN Condition("id", "=", IntToStr(TokenInteger[1]))
                       ELSE Condition("name", "~", input_stream)
                  ELSE IF TokenIsPhone
                       THEN Condition("tel", "~", input_stream)
                       ELSE Condition("name", "~", input_stream)

\* 1-2 for an anonymized org: no integer, the characters of a phone number
C17_Witness ==
    /\ BareToken
    /\ organization.is_anon
    /\ input_stream = <<"1", "-", "2">>
    /\ TokenInteger = <<>>
    /\ TokenIsPhone
    /\ heap[q] = Condition("name", "~", <<"1", "-", "2">>)

(***************************************************************************)
(* Records that lack a value, in the evaluator.                            *)
(***************************************************************************)
\* evaluate() was called on a parsed query that is one condition on a field
FieldConditionEvaluated ==
    /\ q # 0
    /\ op = "evaluate"
    /\ isCondition(heap[q])
    /\ KindOf(heap[q].prop) = PROP_FIELD

\* the field of the condition
FieldOfQuery == CHOOSE f \in ActiveFields(heap[q].prop) : TRUE

\* the record has no entry for the field
MissingEntry == FieldOfQuery.id \notin DOMAIN record.fields

\* the record has an entry for the field that holds no number (a number field)
\* or no datetime (a datetime field)
MissingValue ==
    /\ ~MissingEntry
    /\ \/ /\ FieldOfQuery.value_type = TYPE_NUMBER
          /\ record.fields[FieldOfQuery.id].number = <<>>
       \/ /\ FieldOfQuery.value_type = TYPE_DATETIME
          /\ record.fields[FieldOfQuery.id].datetime = <<>>

\* the value of the condition parses as a value of the type of the field
ValueParses ==
    IF FieldOfQuery.value_type = TYPE_NUMBER THEN Decimal(heap[q].value) # <<>>
    ELSE str_to_date(heap[q].value) # <<>>

\* the answers for a record without an entry for the field
MissingEntryAnswers ==
    MissingEntry =>
        /\ heap[q].kind = "IsSetCondition" /\ heap[q].comparator = "!=" => out = Return(FALSE)
        /\ heap[q].kind = "IsSetCondition" /\ heap[q].comparator = "=" => out = Return(TRUE)
        /\ heap[q].kind = "Condition" => out = Return(FALSE)

\* C18 as stated: in evaluate(), a record without an entry for the field makes
\* an IsSetCondition with != false and one with = true, and every plain
\* condition on the field false, without raising; a record with an entry that
\* holds no number (a number field) or no datetime (a datetime field) makes the
\* plain condition false as well.
C18_MissingValueIsFalse ==
    FieldConditionEvaluated =>
        /\ MissingEntryAnswers
        /\ MissingValue /\ heap[q].kind = "Condition" => out = Return(FALSE)

\* C18: in evaluate(), a record without an entry for the field makes an
\* IsSetCondition with != false and one with = true, and every plain condition
\* on the field false, without raising; a record with an entry that holds no
\* number (a number field) or no datetime (a datetime field) makes the plain
\* condition false if the value of the condition parses as a number, or as a
\* date, and raises SearchException if it does not.
C18_MissingValueIsFalseForValidValue ==
    FieldConditionEvaluated =>
        /\ MissingEntryAnswers
        /\ MissingValue /\ heap[q].kind = "Condition" =>
              out = IF ValueParses THEN Return(FALSE) ELSE Raise(SearchException)

\* age ~ bam on a record without an entry for age: false, though neither the
\* comparator nor the value is one of a number field
C18_Witness ==
    /\ FieldConditionEvaluated
    /\ MissingEntry
    /\ heap[q] = Condition("age", "~", <<"b", "a", "m">>)
    /\ out = Return(FALSE)
    /\ NoMigration

\* dob = 2020-01-15 on a record whose entry holds no datetime
C18_WitnessNoDatetime ==
    /\ FieldConditionEvaluated
    /\ MissingValue
    /\ heap[q] = Condition("dob", "=", Date_2020_01_15)
    /\ out = Return(FALSE)
    /\ NoMigration

(***************************************************************************)
(* Dynamic groups.                                                         *)
(***************************************************************************)
\* the property names of the conditions of the parsed query
PropsOfQuery == {heap[n].prop : n \in {c \in Reachable(heap, q) : isCondition(heap[c])}}

\* C19: can_be_dynamic_group() returns true iff no property name that occurs
\* in the tree of the query is name or id, whatever the shape of the tree is:
\* nested combinations and SinglePropCombinations included.
C19_CanBeDynamicGroup ==
    op = "can_be_dynamic_group" =>
        out = Return("name" \notin PropsOfQuery /\ "id" \notin PropsOfQuery)

\* a combination of a SinglePropCombination on id and a condition on age: no
\* dynamic group
C19_Witness ==
    /\ op = "can_be_dynamic_group"
    /\ heap[q].kind = "BoolCombination"
    /\ \E i \in 1..Len(heap[q].children) :
          /\ heap[heap[q].children[i]].kind = "SinglePropCombination"
          /\ heap[heap[q].children[i]].prop = "id"
    /\ PropsOfQuery = {"id", "age"}
    /\ out = Return(FALSE)
    /\ NoMigration

\* a nested combination of conditions on age and tel: a dynamic group
C19_WitnessAllowed ==
    /\ op = "can_be_dynamic_group"
    /\ heap[q].kind = "BoolCombination"
    /\ \E i \in 1..Len(heap[q].children) : heap[heap[q].children[i]].kind = "BoolCombination"
    /\ PropsOfQuery = {"age", "tel"}
    /\ out = Return(TRUE)

(***************************************************************************)
(* Nodes shared by a query and its optimized query.                        *)
(***************************************************************************)
\* r = q.optimized() has returned
OptimizedReturned ==
    op \in {"optimized", "optimized again", "simplify again", "split_by_prop again"}

\* the combinations that both q and r reach
SharedCombinations ==
    {n \in Reachable(heap, q) \cap Reachable(heap, r) : isCombination(heap[n])}

\* a call on q leaves the tree of r as it was
ResultKept == OptimizedReturned => Tree(heap', r) = Tree(heap, r)

\* C20: after r = q.optimized(), no BoolCombination node that r reaches is
\* reached by q, and every later call of optimized(), simplify() or
\* split_by_prop() on q leaves the tree of r (the types of its nodes, their
\* operators and their lists of children) as it was when r was returned.
C20_NoSharedNode ==
    /\ [](op = "optimized" => SharedCombinations = {})
    /\ [][ResultKept]_vars

(***************************************************************************)
(* The shape of the trees.                                                 *)
(***************************************************************************)
\* the nodes of the trees that are held: the query and the result of the last
\* call
HeldNodes ==
    (IF q = 0 THEN {} ELSE Reachable(heap, q)) \cup (IF r = 0 THEN {} ELSE Reachable(heap, r))

\* a combination has at least two children
TwoChildren(n) == isCombination(heap[n]) => Len(heap[n].children) >= 2

\* the children of a SinglePropCombination are conditions on its property
OwnProperty(n) ==
    heap[n].kind = "SinglePropCombination" =>
        \A i \in 1..Len(heap[n].children) :
            /\ isCondition(heap[heap[n].children[i]])
            /\ heap[heap[n].children[i]].prop = heap[n].prop

\* the children handed to SinglePropCombination() are conditions on the property
\* handed to it
ChildrenFit ==
    \A i \in 1..Len(pre.children) :
        isCondition(pre.children[i]) /\ pre.children[i].prop = pre.prop

\* C21: in every tree that the builder and any sequence of simplify(),
\* split_by_prop() and optimized() produce, every BoolCombination has at least
\* two children and every SinglePropCombination has conditions on its own
\* property as children only; SinglePropCombination() with a child that is
\* not a Condition on the property fails, by its assertion, and constructs the
\* node otherwise.
C21_TreeShape ==
    /\ \A n \in HeldNodes : TwoChildren(n) /\ OwnProperty(n)
    /\ op = "SinglePropCombination" =>
          IF ChildrenFit
          THEN out.exc = None /\ heap[r].kind = "SinglePropCombination"
          ELSE out.exc = AssertionError

\* optimized() returned a combination of a SinglePropCombination and another
\* node, after SinglePropCombination() had failed on children that do not fit
C21_Witness ==
    /\ op = "optimized"
    /\ r # 0
    /\ heap[r].kind = "BoolCombination"
    /\ \E i \in 1..Len(heap[r].children) : heap[heap[r].children[i]].kind = "SinglePropCombination"
    /\ out.exc = AssertionError

(***************************************************************************)
(* The optimized tree in the relational backend.                           *)
(***************************************************************************)
\* the predicates the tree that the visitor built compiles to
Unoptimized == {u \in ContactQuery_as_query(pre, organization) : u.exc = None}

\* C22: for every query whose unoptimized tree compiles with as_query() to a
\* predicate, the optimized() tree compiles without error too, and to a
\* predicate that selects the same contacts.
C22_OptimizedSelectsSame ==
    op = "as_query" =>
        \A u \in Unoptimized :
            /\ out.exc = None
            /\ \A contact_json \in SameContacts :
                  Selects(out.val, contact_json) = Selects(u.val, contact_json)

(***************************************************************************)
(* Migration 0081.                                                         *)
(***************************************************************************)
\* the row has the config of its org and tps = 1
Saved(id) ==
    /\ Channel_objects[id].config = NexmoConfig(Channel_objects[id].org_id)
    /\ Channel_objects[id].tps = 1

\* the row is as it was before the migration
Untouched(id) == Channel_objects[id].config = NoConfig /\ Channel_objects[id].tps = 0

\* the Nexmo API was called for the channel
Called(id) == \E i \in 1..Len(nexmo_numbers) : nexmo_numbers[i].channel = id

\* the org of the channel has every key the migration reads
HasKeys(id) == NexmoKeys \subseteq Org_objects[Channel_objects[id].org_id]

\* C23: the migration changes nothing when IS_PROD is false.  When it is true
\* it visits every active channel of type NX: it saves config and tps = 1
\* before it calls the Nexmo API for a channel, and a failure at one channel,
\* a key missing in the org config or a failing call, neither undoes the
\* config saved for that channel nor keeps the migration from processing the
\* remaining channels: it returns only after the last channel, with every
\* channel whose org has the keys saved and called for.
C23_FailureIsContained ==
    /\ ~IS_PROD =>
          /\ \A id \in DOMAIN Channel_objects : Untouched(id)
          /\ nexmo_numbers = <<>>
    /\ \A id \in DOMAIN Channel_objects : Called(id) => Saved(id)
    /\ pc # "TypeError"
    /\ (IS_PROD /\ pc = "return") =>
          \A id \in DOMAIN Channel_objects :
              IF id \in ActiveNexmo(Channel_objects) /\ HasKeys(id)
              THEN Saved(id) /\ Called(id)
              ELSE Untouched(id)

====
